---------------------------- MODULE Spec2Model ----------------------------
(***************************************************************************)
(* A model of the NeoZZZ Tetris engine core: the row-per-word Board, the   *)
(* Piece geometry derived from the SRS shape tables, the GameState move /  *)
(* spawn / lock / hold operations and the breadth-first PathSearch.        *)
(***************************************************************************)
EXTENDS Integers, Sequences, FiniteSets, TLC

VARIABLES
    m_board,            \* Board: m_width, m_height, m_rows, m_columnHeights, m_roof, m_filledCellCount
    m_currentPiece,     \* PieceState of GameState::m_currentPiece: type, x, y, rot
    m_heldPiece,        \* std::optional<PieceType>; "None" when empty
    m_holdUsed,
    m_nextPieces,       \* std::deque<PieceType>
    m_linesCleared,
    m_gameOver,
    lastOp,             \* the operation that produced this state and its arguments
    ret,                \* the value that operation returned
    nLocks,             \* number of lockCurrentPiece calls so far
    m_config,           \* PathSearch::m_config
    maxDepth,           \* the maxDepth argument of findLandingPositions
    queue,              \* std::queue of SearchNode: piece, lastMove, parent, depth
    visited,            \* the visited set of PieceState
    landingPositions,   \* the vector being built: piece, path, tSpinType
    pc,                 \* position in a running call: idle, loop, done
                        \* (findLandingPositions), descent (the HardDrop loop)
    m_rotationSystems,  \* RuleFactory::m_rotationSystems: name -> prototype
    newPos              \* the local newPos of a running applyMove: xPos, yPos

vars == << m_board, m_currentPiece, m_heldPiece, m_holdUsed, m_nextPieces,
           m_linesCleared, m_gameOver, lastOp, ret, nLocks,
           m_config, maxDepth, queue, visited, landingPositions, pc,
           m_rotationSystems, newPos >>

\* the variables of the search, of the rotation-system registry and of a
\* call in progress, which no complete Board, Piece or GameState operation
\* touches
searchVars == << m_config, maxDepth, queue, visited, landingPositions, pc,
                m_rotationSystems, newPos >>

gameVars == << m_currentPiece, m_heldPiece, m_holdUsed, m_nextPieces,
               m_linesCleared, m_gameOver, nLocks >>

-----------------------------------------------------------------------------
(* Bounds of the model                                                     *)

\* smallest legal board dimension (Board::Board rejects width < 4, height < 4)
minBoardDim == 4

\* SpecBoard: rows above the minimum height, columns above the minimum width
ExtraRows == 0
ExtraCols == 0

\* SpecBoard: fillCell is explored while fewer than this many cells are filled
MaxFilled == 3

\* SpecGame: lockCurrentPiece is explored this many times
MaxLocks == 1

\* SpecGame: applyMove is explored while the piece is at most this many rows
\* below the spawn row
MaxDrop == 0

\* SpecGame: the next-queue is filled up to this length
MaxQueue == 1
MaxPushed == 3
MaxOverLocks == 2

\* SpecGame: the largest wall kick index handed to applyMove (the SRS tables
\* hold 5 offsets, indices 0 .. 4)
MaxKickIndex == 5

\* largest maxDepth handed to findLandingPositions
MaxSearchDepth == 2

Max(S) == CHOOSE m \in S : \A n \in S : n <= m

-----------------------------------------------------------------------------
(* Geometry primitives                                                     *)

PieceTypes == {"I", "J", "L", "O", "S", "T", "Z"}

\* enum class Rotation { R0, R90, R180, R270 } as its underlying value
Rotations == 0 .. 3

rotateClockwise(r) == (r + 1) % 4
rotateCounterClockwise(r) == (r + 3) % 4
rotate180(r) == (r + 2) % 4

\* Piece::maxSize
maxSize == 4

-----------------------------------------------------------------------------
(* SRS shape tables: the 16-bit masks, bit index y * 4 + x                 *)

shapeTable ==
    [ I |-> << 3840, 8738, 240, 17476 >>,
      O |-> << 1632, 1632, 1632, 1632 >>,
      T |-> << 1248, 1124, 228, 1220 >>,
      L |-> << 736, 1094, 232, 3140 >>,
      J |-> << 2272, 1604, 226, 1100 >>,
      S |-> << 1728, 1122, 108, 2244 >>,
      Z |-> << 3168, 612, 198, 1224 >> ]

\* SRS::getShapeData
getShapeData(type, rotation) == shapeTable[type][rotation + 1]

\* std::bitset::test
test(mask, i) == (mask \div (2 ^ i)) % 2 = 1

-----------------------------------------------------------------------------
(* Piece                                                                   *)

\* Piece::updateDimensions: m_width = max (x + 1), m_height = max (y + 1)
\* over the set bits of the 4x4 mask
pieceWidth(mask) ==
    LET xs == { x \in 0 .. maxSize - 1 :
                  \E y \in 0 .. maxSize - 1 : test(mask, y * maxSize + x) }
    IN  IF xs = {} THEN 0 ELSE Max(xs) + 1

pieceHeight(mask) ==
    LET ys == { y \in 0 .. maxSize - 1 :
                  \E x \in 0 .. maxSize - 1 : test(mask, y * maxSize + x) }
    IN  IF ys = {} THEN 0 ELSE Max(ys) + 1

\* the scan of Piece::getFilledCells over a mask: y < m_height, x < m_width,
\* testing bit y * m_width + x
scanFilledCells(mask) ==
    LET w == pieceWidth(mask)
        h == pieceHeight(mask)
    IN  { c \in (0 .. w - 1) \X (0 .. h - 1) : test(mask, c[2] * w + c[1]) }

\* the cells of every (type, rotation), computed once
filledCellsTable ==
    [ t \in PieceTypes |->
        [ r \in Rotations |-> scanFilledCells(getShapeData(t, r)) ] ]

\* Piece::getFilledCells
getFilledCells(type, rotation) == filledCellsTable[type][rotation]

\* Piece::getAbsoluteFilledCells
getAbsoluteFilledCells(p) ==
    { << c[1] + p.x, c[2] + p.y >> : c \in getFilledCells(p.type, p.rot) }

-----------------------------------------------------------------------------
(* Board (row-per-word layout)                                             *)

\* Board::Board
newBoard(width, height) ==
    [ m_width |-> width,
      m_height |-> height,
      m_rows |-> [ y \in 0 .. height - 1 |-> {} ],
      m_columnHeights |-> [ x \in 0 .. width - 1 |-> 0 ],
      m_roof |-> 0,
      m_filledCellCount |-> 0 ]

\* m_fullRowMask
fullRowMask(b) == 0 .. b.m_width - 1

\* Board::isFilled
isFilled(b, x, y) ==
    IF x < 0 \/ x >= b.m_width \/ y < 0 \/ y >= b.m_height
    THEN FALSE
    ELSE x \in b.m_rows[y]

\* the downward scan shared by clearCell and updateHeights: the first filled
\* cell of column x at or below row i, plus one; 0 when there is none
RECURSIVE scanDown(_, _, _)
scanDown(b, x, i) ==
    IF i < 0 THEN 0
    ELSE IF isFilled(b, x, i) THEN i + 1
    ELSE scanDown(b, x, i - 1)

\* Board::updateHeights()
updateHeights(b) ==
    LET hs == [ x \in 0 .. b.m_width - 1 |-> scanDown(b, x, b.m_height - 1) ]
    IN  [ b EXCEPT !.m_columnHeights = hs,
                   !.m_roof = Max({0} \cup { hs[x] : x \in 0 .. b.m_width - 1 }) ]

\* fillCell that brings out-of-range coordinates to the nearest cell
fillCellClamped(b, x, y) ==
    LET cx == IF x < 0 THEN 0 ELSE IF x >= b.m_width THEN b.m_width - 1 ELSE x
        cy == IF y < 0 THEN 0 ELSE IF y >= b.m_height THEN b.m_height - 1 ELSE y
    IN  IF isFilled(b, cx, cy) THEN b
        ELSE LET raise == cy + 1 > b.m_columnHeights[cx]
             IN  [ b EXCEPT !.m_rows[cy] = @ \cup {cx},
                            !.m_columnHeights[cx] = IF raise THEN cy + 1 ELSE @,
                            !.m_roof = IF raise /\ cy + 1 > @ THEN cy + 1 ELSE @,
                            !.m_filledCellCount = @ + 1 ]

\* Board::fillCell
fillCell(b, x, y) ==
    IF x < 0 \/ x >= b.m_width \/ y < 0 \/ y >= b.m_height THEN b
    ELSE IF isFilled(b, x, y) THEN b
    ELSE LET raise == y + 1 > b.m_columnHeights[x]
         IN  [ b EXCEPT !.m_rows[y] = @ \cup {x},
                        !.m_columnHeights[x] = IF raise THEN y + 1 ELSE @,
                        !.m_roof = IF raise /\ y + 1 > @ THEN y + 1 ELSE @,
                        !.m_filledCellCount = @ + 1 ]

\* clearCell without the roof recomputation (a stale roof)
clearCellStaleRoof(b, x, y) ==
    IF x < 0 \/ x >= b.m_width \/ y < 0 \/ y >= b.m_height THEN b
    ELSE IF ~isFilled(b, x, y) THEN b
    ELSE LET b1 == [ b EXCEPT !.m_rows[y] = @ \ {x},
                              !.m_filledCellCount = @ - 1 ]
         IN  IF y + 1 = b1.m_columnHeights[x]
             THEN [ b1 EXCEPT !.m_columnHeights[x] = scanDown(b1, x, y - 1) ]
             ELSE b1

\* Board::clearCell
clearCell(b, x, y) ==
    IF x < 0 \/ x >= b.m_width \/ y < 0 \/ y >= b.m_height THEN b
    ELSE IF ~isFilled(b, x, y) THEN b
    ELSE LET b1 == [ b EXCEPT !.m_rows[y] = @ \ {x},
                              !.m_filledCellCount = @ - 1 ]
         IN  IF y + 1 = b1.m_columnHeights[x]
             THEN LET b2 == [ b1 EXCEPT !.m_columnHeights[x] =
                                            scanDown(b1, x, y - 1) ]
                  IN  IF y + 1 = b2.m_roof THEN updateHeights(b2) ELSE b2
             ELSE b1

\* Board::clearFilledRows, the loop body at row index y with the count so far
RECURSIVE clearRowsLoop(_, _, _)
clearRowsLoop(b, y, rowsCleared) ==
    IF y >= b.m_height THEN [ board |-> b, rowsCleared |-> rowsCleared ]
    ELSE IF b.m_rows[y] = fullRowMask(b)
    THEN LET shifted == [ i \in 0 .. b.m_height - 1 |->
                            IF i < y THEN b.m_rows[i]
                            ELSE IF i < b.m_height - 1 THEN b.m_rows[i + 1]
                            ELSE {} ]
             b1 == [ b EXCEPT !.m_rows = shifted,
                              !.m_filledCellCount = @ - b.m_width ]
         IN  clearRowsLoop(b1, y, rowsCleared + 1)
    ELSE clearRowsLoop(b, y + 1, rowsCleared)

\* the loop without "--y": the row shifted into index y is never examined
RECURSIVE clearRowsLoopSkip(_, _, _)
clearRowsLoopSkip(b, y, rowsCleared) ==
    IF y >= b.m_height THEN [ board |-> b, rowsCleared |-> rowsCleared ]
    ELSE IF b.m_rows[y] = fullRowMask(b)
    THEN LET shifted == [ i \in 0 .. b.m_height - 1 |->
                            IF i < y THEN b.m_rows[i]
                            ELSE IF i < b.m_height - 1 THEN b.m_rows[i + 1]
                            ELSE {} ]
             b1 == [ b EXCEPT !.m_rows = shifted,
                              !.m_filledCellCount = @ - b.m_width ]
         IN  clearRowsLoopSkip(b1, y + 1, rowsCleared + 1)
    ELSE clearRowsLoopSkip(b, y + 1, rowsCleared)

clearFilledRowsSkip(b) ==
    LET r == clearRowsLoopSkip(b, 0, 0)
    IN  IF r.rowsCleared > 0
        THEN [ board |-> updateHeights(r.board), rowsCleared |-> r.rowsCleared ]
        ELSE r

\* Board::clearFilledRows: the board afterwards and the value returned
clearFilledRows(b) ==
    LET r == clearRowsLoop(b, 0, 0)
    IN  IF r.rowsCleared > 0
        THEN [ board |-> updateHeights(r.board), rowsCleared |-> r.rowsCleared ]
        ELSE r

-----------------------------------------------------------------------------
(* Initial values of the GameState fields, shared by all specifications    *)

\* Position{}
Position == [ xPos |-> 0, yPos |-> 0 ]

\* Piece(): PieceType{} = I, Position{} = (0, 0), Rotation{} = R0
defaultPiece == [ type |-> "I", x |-> 0, y |-> 0, rot |-> 0 ]

noOp == [ op |-> "construct" ]

\* RuleFactory::initialize: the registry the RuleFactory constructor leaves;
\* the body registers nothing, the SRS registration being commented out
initialize == [ name \in {} |-> "SRS" ]

\* SearchAlgorithm::Config as declared, and no search under way
defaultConfig ==
    [ allowRotate180 |-> FALSE, allowHardDrop |-> TRUE, allowSoftDrop |-> TRUE ]

SearchIdle ==
    /\ m_config = defaultConfig
    /\ maxDepth = 0
    /\ queue = << >>
    /\ visited = {}
    /\ landingPositions = << >>
    /\ pc = "idle"
    /\ m_rotationSystems = initialize
    /\ newPos = Position

InitGameFields ==
    /\ m_currentPiece = defaultPiece
    /\ m_heldPiece = "None"
    /\ m_holdUsed = FALSE
    /\ m_nextPieces = << >>
    /\ m_linesCleared = 0
    /\ m_gameOver = FALSE
    /\ nLocks = 0

-----------------------------------------------------------------------------
(* SpecBoard: a Board driven by fillCell / clearCell / clearFilledRows     *)

BoardW == minBoardDim + ExtraCols
BoardH == minBoardDim + ExtraRows

InitBoard ==
    /\ m_board = newBoard(BoardW, BoardH)
    /\ lastOp = noOp
    /\ ret = 0
    /\ InitGameFields
    /\ SearchIdle

\* coordinates handed to fillCell / clearCell: the board and one step outside
CoordX == -1 .. BoardW
CoordY == -1 .. BoardH

FillCell(x, y) ==
    /\ m_board.m_filledCellCount < MaxFilled
    /\ m_board' = fillCell(m_board, x, y)
    /\ lastOp' = [ op |-> "fillCell", y |-> y ]
    /\ ret' = 0
    /\ UNCHANGED << gameVars, searchVars >>

ClearCell(x, y) ==
    /\ m_board' = clearCell(m_board, x, y)
    /\ lastOp' = [ op |-> "clearCell", y |-> y ]
    /\ ret' = 0
    /\ UNCHANGED << gameVars, searchVars >>

ClearFilledRows ==
    /\ LET r == clearFilledRows(m_board)
       IN  /\ m_board' = r.board
           /\ ret' = r.rowsCleared
    /\ lastOp' = [ op |-> "clearFilledRows" ]
    /\ UNCHANGED << gameVars, searchVars >>

NextBoard ==
    \/ \E x \in CoordX, y \in CoordY : FillCell(x, y)
    \/ \E x \in CoordX, y \in CoordY : ClearCell(x, y)
    \/ ClearFilledRows

SpecBoard == InitBoard /\ [][NextBoard]_vars

-----------------------------------------------------------------------------
(* What the board actually holds, read off the occupancy alone             *)

FilledCells(b) ==
    { c \in (0 .. b.m_width - 1) \X (0 .. b.m_height - 1) : c[1] \in b.m_rows[c[2]] }

ActualHeight(b, c) ==
    LET ys == { y \in 0 .. b.m_height - 1 : c \in b.m_rows[y] }
    IN  IF ys = {} THEN 0 ELSE 1 + Max(ys)

CachesCoherent(b) ==
    /\ b.m_filledCellCount = Cardinality(FilledCells(b))
    /\ \A c \in 0 .. b.m_width - 1 : b.m_columnHeights[c] = ActualHeight(b, c)
    /\ b.m_roof = Max({0} \cup { b.m_columnHeights[c] : c \in 0 .. b.m_width - 1 })

\* C1: after every in-range fillCell / clearCell call on a board that started
\* empty, filledCount is the number of filled cells, height[c] is one more
\* than the y of the topmost filled cell of column c (0 for an empty column)
\* and roof is the maximum column height.
C1_CachesCoherent ==
    lastOp.op \in {"fillCell", "clearCell"} => CachesCoherent(m_board)

\* C1 witness: a clearCell has just removed the cell that supplied the roof,
\* and a lower cell now supplies it.
C1_Witness ==
    /\ lastOp.op = "clearCell"
    /\ lastOp.y \in 0 .. m_board.m_height - 1
    /\ lastOp.y + 1 > m_board.m_roof
    /\ m_board.m_roof > 0

-----------------------------------------------------------------------------
(* SpecClear: clearFilledRows applied to boards built row by row           *)

\* the row contents a board of SpecClear is built from
RowPatterns(w) == { {}, 0 .. w - 1, {0}, 1 .. w - 1 }

\* the caller's loop of fillCell calls over a set of cells
RECURSIVE fillAll(_, _)
fillAll(b, cells) ==
    IF cells = {} THEN b
    ELSE LET c == CHOOSE c \in cells : TRUE
         IN  fillAll(fillCell(b, c[1], c[2]), cells \ {c})

InitClear ==
    /\ \E f \in [ 0 .. BoardH - 1 -> RowPatterns(BoardW) ] :
          m_board = fillAll(newBoard(BoardW, BoardH),
                            { c \in (0 .. BoardW - 1) \X (0 .. BoardH - 1) :
                                c[1] \in f[c[2]] })
    /\ lastOp = noOp
    /\ ret = 0
    /\ InitGameFields
    /\ SearchIdle

NextClear == ClearFilledRows

SpecClear == InitClear /\ [][NextClear]_vars

\* the rows of b that are not full, bottom to top
RECURSIVE survivors(_, _)
survivors(b, y) ==
    IF y >= b.m_height THEN << >>
    ELSE IF b.m_rows[y] = 0 .. b.m_width - 1 THEN survivors(b, y + 1)
    ELSE << b.m_rows[y] >> \o survivors(b, y + 1)

ClearedAsSpecified(pre, post, count) ==
    LET surv == survivors(pre, 0)
        full == { y \in 0 .. pre.m_height - 1 : pre.m_rows[y] = 0 .. pre.m_width - 1 }
    IN  /\ count = Cardinality(full)
        /\ Len(surv) = pre.m_height - count
        /\ \A y \in 0 .. post.m_height - 1 :
              post.m_rows[y] = IF y < Len(surv) THEN surv[y + 1] ELSE {}
        /\ \A y \in 0 .. post.m_height - 1 : post.m_rows[y] # 0 .. post.m_width - 1

\* C2: clearFilledRows removes exactly the full rows, returns their number,
\* keeps the other rows in their bottom-to-top order shifted down into the
\* gaps, leaves the top rows empty and leaves no full row behind.
C2_ClearFilledRows ==
    [][ lastOp'.op = "clearFilledRows" =>
            ClearedAsSpecified(m_board, m_board', ret') ]_vars

\* C2 witness: two or more rows were removed and two surviving non-empty rows
\* now sit at the bottom of the board.
C2_Witness ==
    /\ lastOp.op = "clearFilledRows"
    /\ ret >= 2
    /\ m_board.m_rows[0] # {}
    /\ m_board.m_rows[1] # {}

-----------------------------------------------------------------------------
(* SRS wall kick tables and spawn state                                    *)

\* jlstzWallKickData: [direction][fromRotation], direction 1 = clockwise,
\* 2 = counter-clockwise
jlstzWallKickData ==
    << << << <<0, 0>>, <<-1, 0>>, <<-1, 1>>, <<0, -2>>, <<-1, -2>> >>,
          << <<0, 0>>, <<1, 0>>, <<1, -1>>, <<0, 2>>, <<1, 2>> >>,
          << <<0, 0>>, <<1, 0>>, <<1, 1>>, <<0, -2>>, <<1, -2>> >>,
          << <<0, 0>>, <<-1, 0>>, <<-1, -1>>, <<0, 2>>, <<-1, 2>> >> >>,
       << << <<0, 0>>, <<1, 0>>, <<1, 1>>, <<0, -2>>, <<1, -2>> >>,
          << <<0, 0>>, <<1, 0>>, <<1, -1>>, <<0, 2>>, <<1, 2>> >>,
          << <<0, 0>>, <<-1, 0>>, <<-1, 1>>, <<0, -2>>, <<-1, -2>> >>,
          << <<0, 0>>, <<-1, 0>>, <<-1, -1>>, <<0, 2>>, <<-1, 2>> >> >> >>

\* iWallKickData
iWallKickData ==
    << << << <<0, 0>>, <<-2, 0>>, <<1, 0>>, <<-2, -1>>, <<1, 2>> >>,
          << <<0, 0>>, <<-1, 0>>, <<2, 0>>, <<-1, 2>>, <<2, -1>> >>,
          << <<0, 0>>, <<2, 0>>, <<-1, 0>>, <<2, 1>>, <<-1, -2>> >>,
          << <<0, 0>>, <<1, 0>>, <<-2, 0>>, <<1, -2>>, <<-2, 1>> >> >>,
       << << <<0, 0>>, <<-1, 0>>, <<2, 0>>, <<-1, 2>>, <<2, -1>> >>,
          << <<0, 0>>, <<2, 0>>, <<-1, 0>>, <<2, 1>>, <<-1, -2>> >>,
          << <<0, 0>>, <<1, 0>>, <<-2, 0>>, <<1, -2>>, <<-2, 1>> >>,
          << <<0, 0>>, <<-2, 0>>, <<1, 0>>, <<-2, -1>>, <<1, 2>> >> >> >>

\* emptyWallKicksData
emptyWallKicksData == << <<0, 0>> >>

\* the clockwise table looked up by the rotation after the move
getClockwiseWallKicksByTarget(type, fromRotation) ==
    CASE type = "I" -> iWallKickData[1][rotateClockwise(fromRotation) + 1]
      [] type = "O" -> emptyWallKicksData
      [] OTHER -> jlstzWallKickData[1][rotateClockwise(fromRotation) + 1]

\* SRS::getClockwiseWallKicks
getClockwiseWallKicks(type, fromRotation) ==
    CASE type = "I" -> iWallKickData[1][fromRotation + 1]
      [] type = "O" -> emptyWallKicksData
      [] OTHER -> jlstzWallKickData[1][fromRotation + 1]

\* SRS::getCounterClockwiseWallKicks
getCounterClockwiseWallKicks(type, fromRotation) ==
    CASE type = "I" -> iWallKickData[2][fromRotation + 1]
      [] type = "O" -> emptyWallKicksData
      [] OTHER -> jlstzWallKickData[2][fromRotation + 1]

\* SRS::get180WallKicks
get180WallKicks(type, fromRotation) == emptyWallKicksData

\* the row SRS spawns pieces on when the board is tall enough
spawnRow == 21

\* SRS::getInitialState
getInitialState(type, boardWidth, boardHeight) ==
    [ type |-> type,
      x |-> (boardWidth - 4) \div 2,
      y |-> IF spawnRow < boardHeight - 1 THEN spawnRow ELSE boardHeight - 1,
      rot |-> 0 ]

-----------------------------------------------------------------------------
(* Moves                                                                   *)

Translations == {"Left", "Right", "Down", "Up", "HardDrop", "SoftDrop"}
RotationMoves == {"RotateClockwise", "RotateCounterClockwise", "Rotate180"}

\* Move::Move(type) leaves m_wallKickIndex at -1
Move(type) == [ type |-> type, wallKickIndex |-> -1 ]

\* Move::isRotation
isRotation(move) == move.type \in RotationMoves

-----------------------------------------------------------------------------
(* GameState, as a record g of its members                                 *)

\* isValidState without the board lookup: only the bounds are tested
isValidStateBoundsOnly(b, state) ==
    \A c \in getAbsoluteFilledCells(state) :
        c[1] >= 0 /\ c[1] < b.m_width /\ c[2] >= 0 /\ c[2] < b.m_height

\* GameState::isValidState
isValidState(b, state) ==
    \A c \in getAbsoluteFilledCells(state) :
        /\ c[1] >= 0 /\ c[1] < b.m_width
        /\ c[2] >= 0 /\ c[2] < b.m_height
        /\ ~isFilled(b, c[1], c[2])

\* GameState::checkCollision(state, position)
checkCollision(b, state, x, y) ==
    ~isValidState(b, [ state EXCEPT !.x = x, !.y = y ])

\* a descent that gives up after one row
hardDropYOneRow(b, state, y) ==
    IF ~checkCollision(b, state, state.x, y - 1) THEN y - 1 ELSE y

\* the HardDrop loop of GameState::applyMove: the y the descent stops at
RECURSIVE hardDropY(_, _, _)
hardDropY(b, state, y) ==
    IF ~checkCollision(b, state, state.x, y - 1)
    THEN hardDropY(b, state, y - 1)
    ELSE y

\* the offset lookup with an index past the end clamped to the last test
kickOffsetClamped(wallKicks, move) ==
    IF move.wallKickIndex >= 0
    THEN IF move.wallKickIndex < Len(wallKicks)
         THEN wallKicks[move.wallKickIndex + 1]
         ELSE wallKicks[Len(wallKicks)]
    ELSE <<0, 0>>

\* the wall kick branch of a rotation case: the offset added to the position
kickOffset(wallKicks, move) ==
    IF move.wallKickIndex >= 0 /\ move.wallKickIndex < Len(wallKicks)
    THEN wallKicks[move.wallKickIndex + 1]
    ELSE <<0, 0>>

\* the switch of GameState::applyMove: the candidate state of a move other
\* than Hold
candidateState(b, cur, move) ==
    CASE move.type = "Left" -> [ cur EXCEPT !.x = @ - 1 ]
      [] move.type = "Right" -> [ cur EXCEPT !.x = @ + 1 ]
      [] move.type = "Down" -> [ cur EXCEPT !.y = @ - 1 ]
      [] move.type = "Up" -> [ cur EXCEPT !.y = @ + 1 ]
      [] move.type = "SoftDrop" -> [ cur EXCEPT !.y = @ - 1 ]
      [] move.type = "HardDrop" -> [ cur EXCEPT !.y = hardDropY(b, cur, cur.y) ]
      [] move.type = "RotateClockwise" ->
            LET newRot == rotateClockwise(cur.rot)
                off == kickOffset(getClockwiseWallKicks(
                                      cur.type, rotateCounterClockwise(newRot)), move)
            IN  [ cur EXCEPT !.rot = newRot, !.x = @ + off[1], !.y = @ + off[2] ]
      [] move.type = "RotateCounterClockwise" ->
            LET newRot == rotateCounterClockwise(cur.rot)
                off == kickOffset(getCounterClockwiseWallKicks(
                                      cur.type, rotateClockwise(newRot)), move)
            IN  [ cur EXCEPT !.rot = newRot, !.x = @ + off[1], !.y = @ + off[2] ]
      [] move.type = "Rotate180" ->
            LET newRot == rotate180(cur.rot)
                off == kickOffset(get180WallKicks(cur.type, rotate180(newRot)), move)
            IN  [ cur EXCEPT !.rot = newRot, !.x = @ + off[1], !.y = @ + off[2] ]

\* spawnPiece that starts the new piece on a cleared board
spawnPieceOnClearedBoard(g, type) ==
    LET state == getInitialState(type, g.m_board.m_width, g.m_board.m_height)
        g1 == [ g EXCEPT !.m_currentPiece = state,
                         !.m_board = newBoard(@.m_width, @.m_height) ]
    IN  IF ~isValidState(g1.m_board, state)
        THEN [ g |-> [ g1 EXCEPT !.m_gameOver = TRUE ], ret |-> FALSE ]
        ELSE [ g |-> g1, ret |-> TRUE ]

\* GameState::spawnPiece: the piece is installed before it is tested
spawnPiece(g, type) ==
    LET state == getInitialState(type, g.m_board.m_width, g.m_board.m_height)
        g1 == [ g EXCEPT !.m_currentPiece = state ]
    IN  IF ~isValidState(g.m_board, state)
        THEN [ g |-> [ g1 EXCEPT !.m_gameOver = TRUE ], ret |-> FALSE ]
        ELSE [ g |-> g1, ret |-> TRUE ]

\* spawnNextPiece that takes the piece from the back of the queue
spawnNextPieceFromBack(g) ==
    IF g.m_nextPieces = << >>
    THEN [ g |-> g, ret |-> FALSE ]
    ELSE spawnPiece([ g EXCEPT !.m_nextPieces = SubSeq(@, 1, Len(@) - 1) ],
                    g.m_nextPieces[Len(g.m_nextPieces)])

\* GameState::spawnNextPiece
spawnNextPiece(g) ==
    IF g.m_nextPieces = << >>
    THEN [ g |-> g, ret |-> FALSE ]
    ELSE spawnPiece([ g EXCEPT !.m_nextPieces = Tail(@) ], Head(g.m_nextPieces))

\* holdCurrentPiece that succeeds without setting m_holdUsed
holdCurrentPieceUnflagged(g) ==
    IF g.m_holdUsed THEN [ g |-> g, ret |-> FALSE ]
    ELSE LET currentType == g.m_currentPiece.type
         IN  IF g.m_heldPiece # "None"
             THEN LET heldType == g.m_heldPiece
                      r == spawnPiece([ g EXCEPT !.m_heldPiece = currentType ], heldType)
                  IN  IF ~r.ret
                      THEN [ g |-> [ r.g EXCEPT !.m_heldPiece = heldType ], ret |-> FALSE ]
                      ELSE [ g |-> r.g, ret |-> TRUE ]
             ELSE LET r == spawnNextPiece([ g EXCEPT !.m_heldPiece = currentType ])
                  IN  IF ~r.ret
                      THEN [ g |-> [ r.g EXCEPT !.m_heldPiece = "None" ], ret |-> FALSE ]
                      ELSE [ g |-> r.g, ret |-> TRUE ]

\* holdCurrentPiece that spawns the held piece without storing the current type
holdCurrentPieceKeepSlot(g) ==
    IF g.m_holdUsed THEN [ g |-> g, ret |-> FALSE ]
    ELSE LET currentType == g.m_currentPiece.type
         IN  IF g.m_heldPiece # "None"
             THEN LET heldType == g.m_heldPiece
                      r == spawnPiece(g, heldType)
                  IN  IF ~r.ret
                      THEN [ g |-> [ r.g EXCEPT !.m_heldPiece = heldType ], ret |-> FALSE ]
                      ELSE [ g |-> [ r.g EXCEPT !.m_holdUsed = TRUE ], ret |-> TRUE ]
             ELSE LET r == spawnNextPiece([ g EXCEPT !.m_heldPiece = currentType ])
                  IN  IF ~r.ret
                      THEN [ g |-> [ r.g EXCEPT !.m_heldPiece = "None" ], ret |-> FALSE ]
                      ELSE [ g |-> [ r.g EXCEPT !.m_holdUsed = TRUE ], ret |-> TRUE ]

\* GameState::holdCurrentPiece
holdCurrentPiece(g) ==
    IF g.m_holdUsed THEN [ g |-> g, ret |-> FALSE ]
    ELSE LET currentType == g.m_currentPiece.type
         IN  IF g.m_heldPiece # "None"
             THEN LET heldType == g.m_heldPiece
                      r == spawnPiece([ g EXCEPT !.m_heldPiece = currentType ], heldType)
                  IN  IF ~r.ret
                      THEN [ g |-> [ r.g EXCEPT !.m_heldPiece = heldType ], ret |-> FALSE ]
                      ELSE [ g |-> [ r.g EXCEPT !.m_holdUsed = TRUE ], ret |-> TRUE ]
             ELSE LET r == spawnNextPiece([ g EXCEPT !.m_heldPiece = currentType ])
                  IN  IF ~r.ret
                      THEN [ g |-> [ r.g EXCEPT !.m_heldPiece = "None" ], ret |-> FALSE ]
                      ELSE [ g |-> [ r.g EXCEPT !.m_holdUsed = TRUE ], ret |-> TRUE ]

\* applyMove without the gameOver test
applyMoveIgnoringGameOver(g, move) ==
    IF move.type = "Hold"
    THEN IF g.m_holdUsed THEN [ g |-> g, ret |-> FALSE ] ELSE holdCurrentPiece(g)
    ELSE LET newState == candidateState(g.m_board, g.m_currentPiece, move)
         IN  IF ~isValidState(g.m_board, newState)
             THEN [ g |-> g, ret |-> FALSE ]
             ELSE [ g |-> [ g EXCEPT !.m_currentPiece = newState ], ret |-> TRUE ]

\* GameState::applyMove
applyMove(g, move) ==
    IF g.m_gameOver THEN [ g |-> g, ret |-> FALSE ]
    ELSE IF move.type = "Hold"
    THEN IF g.m_holdUsed THEN [ g |-> g, ret |-> FALSE ] ELSE holdCurrentPiece(g)
    ELSE LET newState == candidateState(g.m_board, g.m_currentPiece, move)
         IN  IF ~isValidState(g.m_board, newState)
             THEN [ g |-> g, ret |-> FALSE ]
             ELSE [ g |-> [ g EXCEPT !.m_currentPiece = newState ], ret |-> TRUE ]

\* lockCurrentPiece that stamps the piece and clears no row
lockCurrentPieceNoClear(g) ==
    LET stamped == fillAll(g.m_board, getAbsoluteFilledCells(g.m_currentPiece))
    IN  [ g |-> [ g EXCEPT !.m_board = stamped,
                           !.m_holdUsed = FALSE ],
          ret |-> 0 ]

\* lockCurrentPiece with the m_linesCleared update left out
lockCurrentPieceUncounted(g) ==
    LET stamped == fillAll(g.m_board, getAbsoluteFilledCells(g.m_currentPiece))
        r == clearFilledRows(stamped)
    IN  [ g |-> [ g EXCEPT !.m_board = r.board,
                           !.m_holdUsed = FALSE ],
          ret |-> r.rowsCleared ]

\* GameState::lockCurrentPiece
lockCurrentPiece(g) ==
    LET stamped == fillAll(g.m_board, getAbsoluteFilledCells(g.m_currentPiece))
        r == clearFilledRows(stamped)
    IN  [ g |-> [ g EXCEPT !.m_board = r.board,
                           !.m_linesCleared = @ + r.rowsCleared,
                           !.m_holdUsed = FALSE ],
          ret |-> r.rowsCleared ]

-----------------------------------------------------------------------------
(* SpecGame: a GameState bound to SRS, driven through its public operations *)

\* the narrowest legal board, just tall enough for the SRS spawn cells
GameW == minBoardDim
GameH == spawnRow + 3

\* piece types handed to spawnPiece and pushed on the next-queue
SpawnTypes == {"I", "J"}
QueueTypes == {"T"}

\* the moves applied in SpecGame
GameMoves ==
    { Move(t) : t \in {"Left", "Down", "HardDrop", "RotateClockwise", "Hold"} }

Moves ==
    { Move(t) : t \in Translations \cup RotationMoves \cup {"Hold"} }
    \cup { [ type |-> t, wallKickIndex |-> i ] :
             t \in RotationMoves, i \in 0 .. MaxKickIndex }

G == [ m_board |-> m_board,
       m_currentPiece |-> m_currentPiece,
       m_heldPiece |-> m_heldPiece,
       m_holdUsed |-> m_holdUsed,
       m_nextPieces |-> m_nextPieces,
       m_linesCleared |-> m_linesCleared,
       m_gameOver |-> m_gameOver ]

SetG(g) ==
    /\ m_board' = g.m_board
    /\ m_currentPiece' = g.m_currentPiece
    /\ m_heldPiece' = g.m_heldPiece
    /\ m_holdUsed' = g.m_holdUsed
    /\ m_nextPieces' = g.m_nextPieces
    /\ m_linesCleared' = g.m_linesCleared
    /\ m_gameOver' = g.m_gameOver
    /\ UNCHANGED searchVars

\* GameState::GameState(width, height, rotationSystem)
InitGame ==
    /\ m_board = newBoard(GameW, GameH)
    /\ lastOp = noOp
    /\ ret = 0
    /\ InitGameFields
    /\ SearchIdle

ApplyMove(move) ==
    /\ LET r == applyMove(G, move)
       IN  SetG(r.g) /\ ret' = r.ret
    /\ lastOp' = [ op |-> "applyMove", move |-> move ]
    /\ UNCHANGED nLocks

\* moves are driven while the piece is within MaxDrop rows of the spawn row
InWindow == m_currentPiece.y >= spawnRow - MaxDrop

ApplyMoveNearSpawn(move) == InWindow /\ ApplyMove(move)

LockCurrentPiece ==
    /\ nLocks < MaxLocks
    /\ LET r == lockCurrentPiece(G)
       IN  SetG(r.g) /\ ret' = r.ret
    /\ lastOp' = [ op |-> "lockCurrentPiece" ]
    /\ nLocks' = nLocks + 1

SpawnPiece(type) ==
    /\ LET r == spawnPiece(G, type)
       IN  SetG(r.g) /\ ret' = r.ret
    /\ lastOp' = [ op |-> "spawnPiece", type |-> type ]
    /\ UNCHANGED nLocks

SpawnNextPiece ==
    /\ LET r == spawnNextPiece(G)
       IN  SetG(r.g) /\ ret' = r.ret
    /\ lastOp' = [ op |-> "spawnNextPiece" ]
    /\ UNCHANGED nLocks

HoldCurrentPiece ==
    /\ LET r == holdCurrentPiece(G)
       IN  SetG(r.g) /\ ret' = r.ret
    /\ lastOp' = [ op |-> "holdCurrentPiece" ]
    /\ UNCHANGED nLocks

\* getNextPieces().push_back(type)
PushNextPiece(type) ==
    /\ Len(m_nextPieces) < MaxQueue
    /\ m_nextPieces' = Append(m_nextPieces, type)
    /\ lastOp' = [ op |-> "pushNextPiece", type |-> type ]
    /\ ret' = 0
    /\ UNCHANGED << m_board, m_currentPiece, m_heldPiece, m_holdUsed,
                    m_linesCleared, m_gameOver, nLocks, searchVars >>

NextGame ==
    \/ \E move \in GameMoves : ApplyMoveNearSpawn(move)
    \/ LockCurrentPiece
    \/ \E type \in SpawnTypes : SpawnPiece(type)
    \/ SpawnNextPiece
    \/ HoldCurrentPiece
    \/ \E type \in QueueTypes : PushNextPiece(type)

SpecGame == InitGame /\ [][NextGame]_vars

-----------------------------------------------------------------------------
(* SpecMove: applyMove on small boards with obstacles, the piece placed    *)
(* through getCurrentPiece().setState and the board through getBoard()     *)

MoveW == BoardW
MoveH == BoardH + 1

\* cells a board of SpecMove may have filled before the moves start
ObstacleCells == { <<0, 0>>, <<3, 2>> }

\* the piece types placed on the board of SpecMove: one per wall kick table
\* (I, O, and T and S for the table the other five share)
MoveTypes == {"I", "O", "T", "S"}

InitMove ==
    /\ \E cells \in SUBSET ObstacleCells :
           m_board = fillAll(newBoard(MoveW, MoveH), cells)
    /\ \E type \in MoveTypes, rot \in Rotations,
          x \in -1 .. MoveW - 2, y \in -1 .. MoveH - 2 :
           m_currentPiece = [ type |-> type, x |-> x, y |-> y, rot |-> rot ]
    /\ m_heldPiece = "None"
    /\ m_holdUsed = FALSE
    /\ m_nextPieces = << >>
    /\ m_linesCleared = 0
    /\ m_gameOver = FALSE
    /\ nLocks = 0
    /\ lastOp = noOp
    /\ ret = 0
    /\ SearchIdle

NextMove ==
    \/ \E move \in Moves : ApplyMove(move)
    \/ \E type \in MoveTypes : SpawnPiece(type)

SpecMove == InitMove /\ [][NextMove]_vars

\* every cell the piece reports lies on the board and on an empty cell
PieceFits(b, p) ==
    \A c \in getAbsoluteFilledCells(p) :
        /\ c[1] \in 0 .. b.m_width - 1
        /\ c[2] \in 0 .. b.m_height - 1
        /\ c[1] \notin b.m_rows[c[2]]

\* C3: for a translation, SoftDrop, HardDrop or rotation (with or without a
\* wall kick index), applyMove either returns true and every absolute cell of
\* the current piece is inside the board and on an empty cell, or returns
\* false and the piece and the rest of the game state are as before the call
C3_ApplyMove ==
    [][ (lastOp'.op = "applyMove" /\ lastOp'.move.type # "Hold") =>
            \/ ret' = TRUE /\ PieceFits(m_board', m_currentPiece')
            \/ ret' = FALSE /\ UNCHANGED << m_board, gameVars >> ]_vars

\* a rotation took a wall kick that moved the piece, next to a filled cell
C3_Witness ==
    /\ lastOp.op = "applyMove"
    /\ lastOp.move.type = "RotateClockwise"
    /\ lastOp.move.wallKickIndex >= 1
    /\ ret = TRUE
    /\ m_board.m_filledCellCount >= 1

\* C4: spawnPiece returns true with a current piece in bounds, free of
\* collision, and gameOver false, or returns false with gameOver true
C4_SpawnPiece ==
    lastOp.op = "spawnPiece" =>
        \/ ret = TRUE /\ PieceFits(m_board, m_currentPiece) /\ ~m_gameOver
        \/ ret = FALSE /\ m_gameOver

-----------------------------------------------------------------------------
(* SpecPiece: the current piece set through getCurrentPiece().setState and *)
(* its cells read back                                                     *)

\* positions handed to setState
PiecePos == -1 .. 1

\* Piece::setState on the current piece
SetState(type, x, y, rot) ==
    /\ m_currentPiece' = [ type |-> type, x |-> x, y |-> y, rot |-> rot ]
    /\ lastOp' = [ op |-> "setState" ]
    /\ ret' = 0
    /\ UNCHANGED << m_board, m_heldPiece, m_holdUsed, m_nextPieces,
                    m_linesCleared, m_gameOver, nLocks, searchVars >>

\* getCurrentPiece().getFilledCells()
GetFilledCells ==
    /\ ret' = getFilledCells(m_currentPiece.type, m_currentPiece.rot)
    /\ lastOp' = [ op |-> "getFilledCells" ]
    /\ UNCHANGED << m_board, gameVars, searchVars >>

\* getCurrentPiece().getAbsoluteFilledCells()
GetAbsoluteFilledCells ==
    /\ ret' = getAbsoluteFilledCells(m_currentPiece)
    /\ lastOp' = [ op |-> "getAbsoluteFilledCells" ]
    /\ UNCHANGED << m_board, gameVars, searchVars >>

InitPiece ==
    /\ m_board = newBoard(BoardW, BoardH)
    /\ lastOp = noOp
    /\ ret = 0
    /\ InitGameFields
    /\ SearchIdle

NextPiece ==
    \/ \E type \in PieceTypes, x \in PiecePos, y \in PiecePos, rot \in Rotations :
           SetState(type, x, y, rot)
    \/ GetFilledCells
    \/ GetAbsoluteFilledCells

SpecPiece == InitPiece /\ [][NextPiece]_vars

\* the coordinates of the set bits of a 4x4 mask, bit index y * 4 + x
MaskCells(mask) ==
    { c \in (0 .. 3) \X (0 .. 3) : test(mask, c[2] * 4 + c[1]) }

\* C10: getFilledCells returns exactly 4 cells, the coordinates of the set
\* bits of the shape mask (bit index y * 4 + x), and getAbsoluteFilledCells
\* returns those cells translated by the piece position
C10_FilledCells ==
    LET cells == MaskCells(getShapeData(m_currentPiece.type, m_currentPiece.rot))
    IN  /\ lastOp.op = "getFilledCells" =>
               ret = cells /\ Cardinality(ret) = 4
        /\ lastOp.op = "getAbsoluteFilledCells" =>
               ret = { << c[1] + m_currentPiece.x, c[2] + m_currentPiece.y >> :
                          c \in cells }

-----------------------------------------------------------------------------
(* PathSearch                                                              *)

\* PathSearch::canPlacePiece
canPlacePiece(b, p) ==
    \A c \in getAbsoluteFilledCells(p) :
        /\ c[1] >= 0 /\ c[1] < b.m_width
        /\ c[2] >= 0 /\ c[2] < b.m_height
        /\ ~isFilled(b, c[1], c[2])

\* the while loop of PathSearch::applyHardDrop: the value of low it ends with
RECURSIVE hardDropBisect(_, _, _, _)
hardDropBisect(b, p, low, high) ==
    IF low < high
    THEN LET mid == low + (high - low) \div 2
         IN  IF canPlacePiece(b, [ p EXCEPT !.y = @ - mid ])
             THEN hardDropBisect(b, p, mid + 1, high)
             ELSE hardDropBisect(b, p, low, mid)
    ELSE low

\* PathSearch::applyHardDrop
applyHardDrop(b, p) ==
    LET low == hardDropBisect(b, p, 0, b.m_height)
    IN  IF low > 0 THEN [ p EXCEPT !.y = @ - (low - 1) ] ELSE p

\* PathSearch::applyMove: rotations are pure, no wall kick is tried
searchApplyMove(b, p, move) ==
    CASE move.type = "Left" -> [ p EXCEPT !.x = @ - 1 ]
      [] move.type = "Right" -> [ p EXCEPT !.x = @ + 1 ]
      [] move.type = "Down" -> [ p EXCEPT !.y = @ - 1 ]
      [] move.type = "Up" -> [ p EXCEPT !.y = @ + 1 ]
      [] move.type = "RotateClockwise" -> [ p EXCEPT !.rot = rotateClockwise(@) ]
      [] move.type = "RotateCounterClockwise" ->
            [ p EXCEPT !.rot = rotateCounterClockwise(@) ]
      [] move.type = "Rotate180" -> [ p EXCEPT !.rot = rotate180(@) ]
      [] move.type = "HardDrop" -> applyHardDrop(b, p)
      [] OTHER -> p

\* PathSearch::isValidMove
isValidMove(b, p, move) == canPlacePiece(b, searchApplyMove(b, p, move))

\* PathSearch::isAtLandingPosition
isAtLandingPosition(b, p) == ~canPlacePiece(b, [ p EXCEPT !.y = @ - 1 ])

\* PathSearch::generatePossibleMoves, in the order the vector is built
generatePossibleMoves(config) ==
    << Move("Left"), Move("Right") >>
    \o (IF config.allowSoftDrop THEN << Move("Down") >> ELSE << >>)
    \o (IF config.allowHardDrop THEN << Move("HardDrop") >> ELSE << >>)
    \o << Move("RotateClockwise"), Move("RotateCounterClockwise") >>
    \o (IF config.allowRotate180 THEN << Move("Rotate180") >> ELSE << >>)

\* SearchNode(piece, lastMove, parent, depth); parent is << >> for nullptr
\* and << node >> otherwise
SearchNode(piece, lastMove, parent, depth) ==
    [ piece |-> piece, lastMove |-> lastMove, parent |-> parent, depth |-> depth ]

\* PathSearch::reconstructPath: the path, and the node its reference argument
\* is left pointing at
RECURSIVE walkUp(_, _)
walkUp(node, path) ==
    IF node.parent # << >>
    THEN walkUp(node.parent[1], << node.lastMove >> \o path)
    ELSE [ path |-> path, node |-> node ]

reconstructPath(node) == walkUp(node, << >>)

\* isCellOccupied of PathSearch::detectTSpin
isCellOccupied(b, x, y) ==
    IF x < 0 \/ x >= b.m_width \/ y < 0 \/ y >= b.m_height
    THEN TRUE
    ELSE isFilled(b, x, y)

\* detectTSpin with the piece type left untested
detectTSpinAnyType(b, p, lastMoveWasRotation) ==
    IF ~lastMoveWasRotation THEN 0
    ELSE LET A == isCellOccupied(b, p.x - 1, p.y + 1)
             B == isCellOccupied(b, p.x + 1, p.y + 1)
             C == isCellOccupied(b, p.x - 1, p.y - 1)
             D == isCellOccupied(b, p.x + 1, p.y - 1)
             occupiedCorners == Cardinality({ i \in 1 .. 4 : << A, B, C, D >>[i] })
         IN  IF occupiedCorners >= 3 THEN 1
             ELSE IF occupiedCorners = 2
                     /\ CASE p.rot = 0 -> A /\ B
                          [] p.rot = 1 -> B /\ D
                          [] p.rot = 2 -> C /\ D
                          [] p.rot = 3 -> A /\ C
             THEN 2
             ELSE 0

\* detectTSpin with the pair A, D as the front pair of R270
detectTSpinFrontAD(b, p, lastMoveWasRotation) ==
    IF p.type # "T" \/ ~lastMoveWasRotation THEN 0
    ELSE LET A == isCellOccupied(b, p.x - 1, p.y + 1)
             B == isCellOccupied(b, p.x + 1, p.y + 1)
             C == isCellOccupied(b, p.x - 1, p.y - 1)
             D == isCellOccupied(b, p.x + 1, p.y - 1)
             occupiedCorners == Cardinality({ i \in 1 .. 4 : << A, B, C, D >>[i] })
         IN  IF occupiedCorners >= 3 THEN 1
             ELSE IF occupiedCorners = 2
                     /\ CASE p.rot = 0 -> A /\ B
                          [] p.rot = 1 -> B /\ D
                          [] p.rot = 2 -> C /\ D
                          [] p.rot = 3 -> A /\ D
             THEN 2
             ELSE 0

\* PathSearch::detectTSpin
detectTSpin(b, p, lastMoveWasRotation) ==
    IF p.type # "T" \/ ~lastMoveWasRotation THEN 0
    ELSE LET A == isCellOccupied(b, p.x - 1, p.y + 1)
             B == isCellOccupied(b, p.x + 1, p.y + 1)
             C == isCellOccupied(b, p.x - 1, p.y - 1)
             D == isCellOccupied(b, p.x + 1, p.y - 1)
             occupiedCorners == Cardinality({ i \in 1 .. 4 : << A, B, C, D >>[i] })
         IN  IF occupiedCorners >= 3 THEN 1
             ELSE IF occupiedCorners = 2
                     /\ CASE p.rot = 0 -> A /\ B
                          [] p.rot = 1 -> B /\ D
                          [] p.rot = 2 -> C /\ D
                          [] p.rot = 3 -> A /\ C
             THEN 2
             ELSE 0

\* a pop that leaves the front node in the queue
popKeepingFront(q) == q

\* std::queue::pop
pop(q) == Tail(q)

\* the for loop over possibleMoves in findLandingPositions: the queue and the
\* visited set after moves i .. Len(moves) were tried from node
RECURSIVE tryMoves(_, _, _, _, _, _)
tryMoves(b, node, moves, i, q, v) ==
    IF i > Len(moves) THEN [ queue |-> q, visited |-> v ]
    ELSE LET move == moves[i]
             newPiece == searchApplyMove(b, node.piece, move)
         IN  IF isValidMove(b, node.piece, move) /\ newPiece \notin v
             THEN tryMoves(b, node, moves, i + 1,
                           Append(q, SearchNode(newPiece, move, << node >>, node.depth + 1)),
                           v \cup { newPiece })
             ELSE tryMoves(b, node, moves, i + 1, q, v)

-----------------------------------------------------------------------------
(* SpecSearch: one call of findLandingPositions(gameState, piece, maxDepth) *)
(* with piece the current piece of gameState                                *)

\* the configurations a search is run under
Configs ==
    [ allowRotate180 : BOOLEAN, allowHardDrop : BOOLEAN, allowSoftDrop : BOOLEAN ]

\* the piece types searched for
SearchTypes == {"I", "T", "J"}

InitSearch ==
    /\ \E cells \in SUBSET ObstacleCells :
           m_board = fillAll(newBoard(MoveW, MoveH), cells)
    /\ \E type \in SearchTypes, rot \in Rotations,
          x \in -1 .. MoveW - 2, y \in -2 .. MoveH - 2 :
           /\ m_currentPiece = [ type |-> type, x |-> x, y |-> y, rot |-> rot ]
           /\ canPlacePiece(m_board, m_currentPiece)
    /\ m_heldPiece = "None"
    /\ m_holdUsed = FALSE
    /\ m_nextPieces = << >>
    /\ m_linesCleared = 0
    /\ m_gameOver = FALSE
    /\ nLocks = 0
    /\ lastOp = noOp
    /\ ret = 0
    /\ m_config \in Configs
    /\ maxDepth \in 0 .. MaxSearchDepth
    /\ queue = << >>
    /\ visited = {}
    /\ landingPositions = << >>
    /\ pc = "idle"
    /\ m_rotationSystems = initialize
    /\ newPos = Position

\* the start of findLandingPositions without visited.insert(piece.getState())
BeginSearchRootUnvisited ==
    /\ pc = "idle"
    /\ queue' = << SearchNode(m_currentPiece, Move("Down"), << >>, 0) >>
    /\ visited' = {}
    /\ landingPositions' = << >>
    /\ pc' = "loop"
    /\ lastOp' = [ op |-> "findLandingPositions" ]
    /\ UNCHANGED << m_board, gameVars, ret, m_config, maxDepth,
                    m_rotationSystems, newPos >>

\* findLandingPositions up to the while loop: the start node is queued and
\* its state marked visited
BeginSearch ==
    /\ pc = "idle"
    /\ queue' = << SearchNode(m_currentPiece, Move("Down"), << >>, 0) >>
    /\ visited' = { m_currentPiece }
    /\ landingPositions' = << >>
    /\ pc' = "loop"
    /\ lastOp' = [ op |-> "findLandingPositions" ]
    /\ UNCHANGED << m_board, gameVars, ret, m_config, maxDepth,
                    m_rotationSystems, newPos >>

\* one iteration of the while loop of findLandingPositions
SearchIteration ==
    /\ pc = "loop"
    /\ queue # << >>
    /\ LET currentNode == Head(queue)
           popped == pop(queue)
       IN  IF maxDepth > 0 /\ currentNode.depth >= maxDepth
           THEN /\ queue' = popped
                /\ UNCHANGED << visited, landingPositions >>
           ELSE LET landed == isAtLandingPosition(m_board, currentNode.piece)
                    rp == reconstructPath(currentNode)
                    path == rp.path
                    \* reconstructPath takes currentNode by reference and
                    \* leaves it at the start node
                    nodeAfter == IF landed THEN rp.node ELSE currentNode
                    lastMoveWasRotation ==
                        path # << >> /\ path[Len(path)].type \in RotationMoves
                    tSpinType ==
                        detectTSpin(m_board, nodeAfter.piece, lastMoveWasRotation)
                    r == tryMoves(m_board, nodeAfter,
                                  generatePossibleMoves(m_config), 1, popped, visited)
                IN  /\ landingPositions' =
                           IF landed
                           THEN Append(landingPositions,
                                       [ piece |-> currentNode.piece,
                                         path |-> path,
                                         tSpinType |-> tSpinType ])
                           ELSE landingPositions
                    /\ queue' = r.queue
                    /\ visited' = r.visited
    /\ UNCHANGED << m_board, gameVars, lastOp, ret, m_config, maxDepth, pc,
                    m_rotationSystems, newPos >>

\* the queue is empty: findLandingPositions returns landingPositions
ReturnLandingPositions ==
    /\ pc = "loop"
    /\ queue = << >>
    /\ pc' = "done"
    /\ ret' = landingPositions
    /\ UNCHANGED << m_board, gameVars, lastOp, m_config, maxDepth, queue,
                    visited, landingPositions, m_rotationSystems, newPos >>

NextSearch ==
    \/ BeginSearch
    \/ SearchIteration
    \/ ReturnLandingPositions

SpecSearch == InitSearch /\ [][NextSearch]_vars

\* the stored path applied move by move with GameState::applyMove
RECURSIVE replay(_, _, _)
replay(g, path, i) ==
    IF i > Len(path) THEN [ ok |-> TRUE, g |-> g ]
    ELSE LET r == applyMove(g, path[i])
         IN  IF r.ret THEN replay(r.g, path, i + 1) ELSE [ ok |-> FALSE, g |-> r.g ]

\* C5: for every returned landing, applying its path move by move with
\* GameState::applyMove to a copy of the input game state succeeds at every
\* step and ends with the current piece in the landing's state
C5_PathReplays ==
    pc = "done" =>
        \A i \in DOMAIN ret :
            LET r == replay(G, ret[i].path, 1)
            IN  r.ok /\ r.g.m_currentPiece = ret[i].piece

\* the piece states reachable from those of frontier by moves of the
\* alphabet, every state on the way fitting on the board
RECURSIVE closure(_, _, _, _)
closure(b, alphabet, seen, frontier) ==
    IF frontier = {} THEN seen
    ELSE LET next == { searchApplyMove(b, p, alphabet[k]) :
                         p \in frontier, k \in DOMAIN alphabet }
             fresh == { p \in next : canPlacePiece(b, p) } \ seen
         IN  closure(b, alphabet, seen \cup fresh, fresh)

Reachable(b, p, config) ==
    closure(b, generatePossibleMoves(config), { p }, { p })

\* C6: with maxDepth = 0 there is an entry for every landing state that some
\* sequence of moves of the configured alphabet reaches from the input piece
\* through fitting states, landing states reached from another landing
\* state included
C6_EveryLandingReturned ==
    (pc = "done" /\ maxDepth = 0) =>
        \A p \in Reachable(m_board, m_currentPiece, m_config) :
            isAtLandingPosition(m_board, p) =>
                \E i \in DOMAIN ret : ret[i].piece = p

\* C7: the list of landings never holds two entries whose pieces have the
\* same type, position and rotation
C7_NoDuplicateLandings ==
    \A i, j \in DOMAIN landingPositions :
        i # j => landingPositions[i].piece # landingPositions[j].piece

\* a search has returned several landings after meeting visited states again
C7_Witness ==
    /\ pc = "done"
    /\ Len(ret) >= 3
    /\ Cardinality(visited) > Len(ret)
    /\ \E i \in DOMAIN ret : ret[i].piece = m_currentPiece

pathEndsInRotation(path) ==
    path # << >> /\ path[Len(path)].type \in RotationMoves

\* C8: for every returned T landing, tSpinType is the three-corner
\* classification at the landing's own position and rotation, together with
\* whether the last move of its path is a rotation
C8_TSpinAtLanding ==
    pc = "done" =>
        \A i \in DOMAIN ret :
            ret[i].piece.type = "T" =>
                ret[i].tSpinType =
                    detectTSpin(m_board, ret[i].piece, pathEndsInRotation(ret[i].path))

\* C9: every landing whose piece type is not T has tSpinType 0
C9_NonTNoTSpin ==
    \A i \in DOMAIN landingPositions :
        landingPositions[i].piece.type # "T" => landingPositions[i].tSpinType = 0

\* a piece other than T was returned at a landing reached by a rotation, three
\* of the four corners around the piece handed to detectTSpin being occupied
C9_Witness ==
    /\ pc = "done"
    /\ m_currentPiece.type # "T"
    /\ \E i \in DOMAIN ret : pathEndsInRotation(ret[i].path)
    /\ detectTSpinAnyType(m_board, m_currentPiece, TRUE) = 1

-----------------------------------------------------------------------------
(* SpecSpawn: spawnPiece on empty boards of several sizes                  *)

\* the widths and heights GameState is constructed with
SpawnWidths == {4, 10}
SpawnHeights == 20 .. 24

InitSpawn ==
    /\ \E width \in SpawnWidths, height \in SpawnHeights :
           m_board = newBoard(width, height)
    /\ lastOp = noOp
    /\ ret = 0
    /\ InitGameFields
    /\ SearchIdle

NextSpawn ==
    \/ \E type \in PieceTypes : SpawnPiece(type)
    \/ \E move \in GameMoves : ApplyMoveNearSpawn(move)

SpecSpawn == InitSpawn /\ [][NextSpawn]_vars

\* C11: on an empty 10x20 board spawnPiece returns true for each piece
\* type, installs the piece at (3, 19) with rotation R0 and leaves gameOver
\* false
C11_SpawnOnStandardBoard ==
    (/\ m_board.m_width = 10
     /\ m_board.m_height = 20
     /\ m_board.m_filledCellCount = 0
     /\ lastOp.op = "spawnPiece") =>
        /\ ret = TRUE
        /\ m_currentPiece = [ type |-> lastOp.type, x |-> 3, y |-> 19, rot |-> 0 ]
        /\ ~m_gameOver

-----------------------------------------------------------------------------
(* SpecDrop: the downward moves on small boards with obstacles; the piece, *)
(* the board and the gameOver flag are set through the GameState accessors *)

DropMoves == { Move(t) : t \in {"HardDrop", "Down", "SoftDrop"} }

InitDrop ==
    /\ \E cells \in SUBSET ObstacleCells :
           m_board = fillAll(newBoard(MoveW, MoveH), cells)
    /\ \E type \in PieceTypes, rot \in Rotations,
          x \in -1 .. MoveW - 2, y \in -2 .. MoveH - 2 :
           m_currentPiece = [ type |-> type, x |-> x, y |-> y, rot |-> rot ]
    /\ m_gameOver \in BOOLEAN
    /\ m_heldPiece = "None"
    /\ m_holdUsed = FALSE
    /\ m_nextPieces = << >>
    /\ m_linesCleared = 0
    /\ nLocks = 0
    /\ lastOp = noOp
    /\ ret = 0
    /\ SearchIdle

NextDrop == \E move \in DropMoves : ApplyMove(move)

SpecDrop == InitDrop /\ [][NextDrop]_vars

\* a HardDrop from a fitting piece returned true and went straight down by
\* the largest distance all of whose intermediate offsets fit
DroppedToFirstCollision ==
    LET d == m_currentPiece.y - m_currentPiece'.y
    IN  /\ ret' = TRUE
        /\ m_currentPiece' = [ m_currentPiece EXCEPT !.y = @ - d ]
        /\ d >= 0
        /\ \A k \in 1 .. d :
               PieceFits(m_board, [ m_currentPiece EXCEPT !.y = @ - k ])
        /\ ~PieceFits(m_board, [ m_currentPiece EXCEPT !.y = @ - (d + 1) ])
        /\ m_board' = m_board

\* C12 as stated: whenever the current piece fits, applyMove(HardDrop)
\* returns true and moves the piece straight down to one above the first
\* collision
C12_HardDropAsStated ==
    [][ (/\ lastOp'.op = "applyMove"
         /\ lastOp'.move.type = "HardDrop"
         /\ PieceFits(m_board, m_currentPiece)) => DroppedToFirstCollision ]_vars

\* C12: when the game is not over and the current piece fits,
\* applyMove(HardDrop) returns true and moves the piece straight down by the
\* largest distance d such that it fits at every offset 1..d; x and rotation
\* are unchanged and a further step down does not fit
C12_HardDrop ==
    [][ (/\ lastOp'.op = "applyMove"
         /\ lastOp'.move.type = "HardDrop"
         /\ ~m_gameOver
         /\ PieceFits(m_board, m_currentPiece)) => DroppedToFirstCollision ]_vars

\* a hard drop has come to rest on a filled cell above the floor
C12_Witness ==
    /\ lastOp.op = "applyMove"
    /\ lastOp.move.type = "HardDrop"
    /\ ret = TRUE
    /\ ~m_gameOver
    /\ m_currentPiece.y >= 0
    /\ PieceFits(m_board, m_currentPiece)
    /\ \E c \in getAbsoluteFilledCells(m_currentPiece) :
           c[2] >= 2 /\ c[1] \in m_board.m_rows[c[2] - 1]

-----------------------------------------------------------------------------
(* SpecScenario: on an empty 10x20 board the piece is placed with          *)
(* getCurrentPiece().setState, one move is applied and the piece is locked *)

ScenarioTypes == {"O", "I", "T", "J"}
ScenarioPositions == { <<4, 19>>, <<4, 0>>, <<0, 10>>, <<3, 1>> }

ScenarioMoves ==
    { Move("HardDrop") }
    \cup { [ type |-> t, wallKickIndex |-> i ] :
             t \in RotationMoves, i \in -1 .. MaxKickIndex }

InitScenario ==
    /\ m_board = newBoard(10, 20)
    /\ lastOp = noOp
    /\ ret = 0
    /\ InitGameFields
    /\ SearchIdle

\* the piece is placed before anything else is done with it
PlacePiece(type, pos, rot) ==
    /\ lastOp.op \in {"construct", "setState"}
    /\ SetState(type, pos[1], pos[2], rot)

\* one move on the placed piece
MovePlacedPiece(move) ==
    /\ lastOp.op = "setState"
    /\ ApplyMove(move)

\* the piece is locked where it is, which ends the scenario
LockPlacedPiece ==
    /\ lastOp.op \in {"setState", "applyMove"}
    /\ LockCurrentPiece

NextScenario ==
    \/ \E type \in ScenarioTypes, pos \in ScenarioPositions, rot \in Rotations :
           PlacePiece(type, pos, rot)
    \/ \E move \in ScenarioMoves : MovePlacedPiece(move)
    \/ LockPlacedPiece

SpecScenario == InitScenario /\ [][NextScenario]_vars

\* C13: on the empty 10x20 board an O piece at (4, 19) is hard-dropped to
\* (4, 0) with applyMove returning true, and locking the O piece at (4, 0)
\* returns 0 and brings the filled cell count to 4
C13_HardDropAndLock ==
    [][ /\ (/\ m_currentPiece = [ type |-> "O", x |-> 4, y |-> 19, rot |-> 0 ]
            /\ lastOp'.op = "applyMove"
            /\ lastOp'.move.type = "HardDrop") =>
               /\ ret' = TRUE
               /\ m_currentPiece' = [ type |-> "O", x |-> 4, y |-> 0, rot |-> 0 ]
        /\ (/\ m_currentPiece = [ type |-> "O", x |-> 4, y |-> 0, rot |-> 0 ]
            /\ lastOp'.op = "lockCurrentPiece") =>
               /\ ret' = 0
               /\ m_board'.m_filledCellCount = 4 ]_vars

\* the kick table the claim selects: by the direction of the move, the piece
\* type and the rotation before the move
KickTableOf(moveType, type, rotBefore) ==
    IF moveType = "Rotate180" \/ type = "O" THEN << <<0, 0>> >>
    ELSE LET dir == IF moveType = "RotateClockwise" THEN 1 ELSE 2
         IN  IF type = "I" THEN iWallKickData[dir][rotBefore + 1]
             ELSE jlstzWallKickData[dir][rotBefore + 1]

RotatedBy(moveType, rot) ==
    CASE moveType = "RotateClockwise" -> (rot + 1) % 4
      [] moveType = "RotateCounterClockwise" -> (rot + 3) % 4
      [] moveType = "Rotate180" -> (rot + 2) % 4

\* C14: a rotation carrying an in-range wall kick index i has as candidate
\* the rotated piece at the current position plus offset i of the table
\* selected by direction, type and rotation before the move; the candidate is
\* committed when it fits and rejected with the state unchanged otherwise.
\* The I piece at (0,10) R0 with RotateClockwise: index 1 is rejected, index 2
\* is committed at (1,10) R90
C14_KickCandidate ==
    [][ (/\ lastOp'.op = "applyMove"
         /\ lastOp'.move.type \in RotationMoves
         /\ lastOp'.move.wallKickIndex >= 0
         /\ lastOp'.move.wallKickIndex <
                Len(KickTableOf(lastOp'.move.type, m_currentPiece.type,
                                m_currentPiece.rot))) =>
            LET mv == lastOp'.move
                off == KickTableOf(mv.type, m_currentPiece.type,
                                   m_currentPiece.rot)[mv.wallKickIndex + 1]
                candidate == [ type |-> m_currentPiece.type,
                               x |-> m_currentPiece.x + off[1],
                               y |-> m_currentPiece.y + off[2],
                               rot |-> RotatedBy(mv.type, m_currentPiece.rot) ]
                start == [ type |-> "I", x |-> 0, y |-> 10, rot |-> 0 ]
            IN  /\ IF PieceFits(m_board, candidate)
                   THEN ret' = TRUE /\ m_currentPiece' = candidate
                   ELSE ret' = FALSE /\ m_currentPiece' = m_currentPiece
                /\ m_board' = m_board
                /\ (m_currentPiece = start /\ mv.type = "RotateClockwise"
                        /\ mv.wallKickIndex = 1) =>
                       /\ candidate = [ start EXCEPT !.x = -2, !.rot = 1 ]
                       /\ ret' = FALSE
                /\ (m_currentPiece = start /\ mv.type = "RotateClockwise"
                        /\ mv.wallKickIndex = 2) =>
                       /\ ret' = TRUE
                       /\ m_currentPiece' = [ start EXCEPT !.x = 1, !.rot = 1 ] ]_vars

\* the I piece placed at (0,10) R0 was rotated clockwise with index 2
C14_Witness ==
    /\ lastOp.op = "applyMove"
    /\ lastOp.move = [ type |-> "RotateClockwise", wallKickIndex |-> 2 ]
    /\ ret = TRUE
    /\ m_currentPiece = [ type |-> "I", x |-> 1, y |-> 10, rot |-> 1 ]
    /\ m_board.m_width = 10

\* the rows of b with the cells of piece p added
StampedRows(b, p) ==
    [ y \in 0 .. b.m_height - 1 |->
        b.m_rows[y] \cup { x \in 0 .. b.m_width - 1 :
                             << x, y >> \in getAbsoluteFilledCells(p) } ]

HoldStep ==
    \/ lastOp'.op = "holdCurrentPiece"
    \/ lastOp'.op = "applyMove" /\ lastOp'.move.type = "Hold"

\* C16: once a hold has succeeded, every further hold attempt returns false
\* and changes nothing until lockCurrentPiece is called: a hold succeeds only
\* with holdUsed false and sets it, and holdUsed stays set through every
\* operation but lockCurrentPiece
C16_HoldOncePerTurn ==
    [][ /\ (HoldStep /\ ret' = TRUE) => (~m_holdUsed /\ m_holdUsed')
        /\ (m_holdUsed /\ lastOp'.op # "lockCurrentPiece") => m_holdUsed'
        /\ (m_holdUsed /\ HoldStep) =>
               (ret' = FALSE /\ UNCHANGED << m_board, gameVars >>) ]_vars

\* a hold was refused in the turn of an earlier hold although a piece is held
\* and the game is running
C16_Witness ==
    /\ lastOp.op = "holdCurrentPiece"
    /\ ret = FALSE
    /\ m_holdUsed
    /\ m_heldPiece # "None"
    /\ ~m_gameOver
    /\ PieceFits(m_board, getInitialState(m_heldPiece, GameW, GameH))

\* C17: whenever a hold attempt returns false, the board, the current piece,
\* the held slot, the next-queue, holdUsed and gameOver are as before the call
C17_FailedHoldChangesNothing ==
    [][ (HoldStep /\ ret' = FALSE) => UNCHANGED << m_board, gameVars >> ]_vars

\* number of pieces of type t among the current piece, the held slot and the
\* next-queue
typeCount(current, held, next, t) ==
    (IF current.type = t THEN 1 ELSE 0)
    + (IF held = t THEN 1 ELSE 0)
    + Cardinality({ i \in DOMAIN next : next[i] = t })

-----------------------------------------------------------------------------
(* The next-queue: a client pushes types at the back, spawnNextPiece takes *)
(* them from the front.  On the 24-row board the spawn succeeds, on the    *)
(* 20-row board it is blocked by the top edge.                             *)

PushedTypes == {"I", "O", "T"}
QueueHeights == {20, GameH}

InitQueue ==
    /\ \E h \in QueueHeights : m_board = newBoard(GameW, h)
    /\ lastOp = noOp
    /\ ret = 0
    /\ InitGameFields
    /\ SearchIdle

\* getNextPieces().push_back(type)
PushBack(type) ==
    /\ Len(m_nextPieces) < MaxPushed
    /\ m_nextPieces' = Append(m_nextPieces, type)
    /\ lastOp' = [ op |-> "pushNextPiece", type |-> type ]
    /\ ret' = 0
    /\ UNCHANGED << m_board, m_currentPiece, m_heldPiece, m_holdUsed,
                    m_linesCleared, m_gameOver, nLocks, searchVars >>

NextQueue ==
    \/ \E type \in PushedTypes : PushBack(type)
    \/ SpawnNextPiece

SpecQueue == InitQueue /\ [][NextQueue]_vars

\* C19: spawnNextPiece on a non-empty next-queue removes exactly the head of
\* the queue and spawns that type (the current piece becomes the head's type
\* at its spawn state and the call returns whether it fits there), so types
\* are spawned in the order they were pushed; on an empty queue it returns
\* false and changes nothing, gameOver included
C19_SpawnNextPiece ==
    [][ lastOp'.op = "spawnNextPiece" =>
            IF m_nextPieces = << >>
            THEN ret' = FALSE /\ UNCHANGED << m_board, gameVars >>
            ELSE /\ m_nextPieces' = Tail(m_nextPieces)
                 /\ m_currentPiece' = getInitialState(Head(m_nextPieces),
                                          m_board.m_width, m_board.m_height)
                 /\ ret' = PieceFits(m_board, m_currentPiece')
                 /\ UNCHANGED << m_board, m_heldPiece, m_holdUsed,
                                 m_linesCleared >>
      ]_vars

\* a piece was spawned from the front of a queue that still holds pieces of
\* other types, the last of them different from the one spawned
C19_Witness ==
    /\ lastOp.op = "spawnNextPiece"
    /\ ret = TRUE
    /\ Len(m_nextPieces) >= 2
    /\ m_nextPieces[Len(m_nextPieces)] # m_currentPiece.type
    /\ m_currentPiece = getInitialState(m_currentPiece.type,
                                        m_board.m_width, m_board.m_height)

-----------------------------------------------------------------------------
(* SpecOver: play goes on after the game is over.  Pieces are spawned and  *)
(* locked at the spawn row until a spawn is blocked; from then on the      *)
(* client also calls applyMove with every move.                            *)

OverTypes == {"I", "J", "O"}

InitOver == InitGame

ApplyMoveAfterGameOver(move) == m_gameOver /\ ApplyMove(move)

LockAfterSpawn ==
    /\ nLocks < MaxOverLocks
    /\ LET r == lockCurrentPiece(G)
       IN  SetG(r.g) /\ ret' = r.ret
    /\ lastOp' = [ op |-> "lockCurrentPiece" ]
    /\ nLocks' = nLocks + 1

NextOver ==
    \/ \E move \in Moves : ApplyMoveAfterGameOver(move)
    \/ LockAfterSpawn
    \/ \E type \in OverTypes : SpawnPiece(type)
    \/ SpawnNextPiece
    \/ HoldCurrentPiece
    \/ \E type \in QueueTypes : PushNextPiece(type)

SpecOver == InitOver /\ [][NextOver]_vars

\* C20: once gameOver is set, every applyMove returns false and leaves the
\* board, the current piece, the held piece, the queue and the counters
\* unchanged, and no call of applyMove, spawnPiece, spawnNextPiece,
\* lockCurrentPiece or holdCurrentPiece resets gameOver
C20_GameOverIsFinal ==
    [][ m_gameOver =>
            /\ lastOp'.op = "applyMove" =>
                   (ret' = FALSE /\ UNCHANGED << m_board, gameVars >>)
            /\ lastOp'.op \in {"applyMove", "spawnPiece", "spawnNextPiece",
                               "lockCurrentPiece", "holdCurrentPiece"} =>
                   m_gameOver' ]_vars

\* after the game was over the current piece fits where it is, and a move
\* for which there is room was refused
C20_Witness ==
    /\ m_gameOver
    /\ lastOp.op = "applyMove"
    /\ lastOp.move.type # "Hold"
    /\ ret = FALSE
    /\ PieceFits(m_board, m_currentPiece)
    /\ isValidState(m_board, candidateState(m_board, m_currentPiece, lastOp.move))
    /\ candidateState(m_board, m_currentPiece, lastOp.move) # m_currentPiece

-----------------------------------------------------------------------------
(* Depth-limited search, checked on SpecSearch                             *)

\* the piece states some sequence of at most d moves of the alphabet reaches
\* from those of frontier through fitting states
RECURSIVE closureToDepth(_, _, _, _, _)
closureToDepth(b, alphabet, seen, frontier, d) ==
    IF frontier = {} \/ d = 0 THEN seen
    ELSE LET next == { searchApplyMove(b, p, alphabet[k]) :
                         p \in frontier, k \in DOMAIN alphabet }
             fresh == { p \in next : canPlacePiece(b, p) } \ seen
         IN  closureToDepth(b, alphabet, seen \cup fresh, fresh, d - 1)

WithinDepth(b, p, config, d) ==
    closureToDepth(b, generatePossibleMoves(config), { p }, { p }, d)

\* C21: with maxDepth > 0 every landing state whose breadth-first depth is
\* at most maxDepth is returned, the nodes at depth maxDepth being recorded
\* though not expanded
C21_LandingsWithinDepth ==
    (pc = "done" /\ maxDepth > 0) =>
        \A p \in WithinDepth(m_board, m_currentPiece, m_config, maxDepth) :
            isAtLandingPosition(m_board, p) =>
                \E i \in DOMAIN ret : ret[i].piece = p

-----------------------------------------------------------------------------
(* SpecRotationOnly: findLandingPositions under configurations carrying    *)
(* every field of SearchAlgorithm::Config                                  *)

FullConfigs ==
    [ allowRotate180 : {FALSE}, allowHardDrop : BOOLEAN, allowSoftDrop : {TRUE},
      is20G : {FALSE}, lastRotationOnly : BOOLEAN ]

RotationOnlyTypes == {"T", "J"}

InitRotationOnly ==
    /\ \E cells \in SUBSET ObstacleCells :
           m_board = fillAll(newBoard(MoveW, MoveH), cells)
    /\ \E type \in RotationOnlyTypes, rot \in Rotations,
          x \in -1 .. MoveW - 2, y \in -2 .. MoveH - 2 :
           /\ m_currentPiece = [ type |-> type, x |-> x, y |-> y, rot |-> rot ]
           /\ canPlacePiece(m_board, m_currentPiece)
    /\ m_heldPiece = "None"
    /\ m_holdUsed = FALSE
    /\ m_nextPieces = << >>
    /\ m_linesCleared = 0
    /\ m_gameOver = FALSE
    /\ nLocks = 0
    /\ lastOp = noOp
    /\ ret = 0
    /\ m_config \in FullConfigs
    /\ maxDepth = 0
    /\ queue = << >>
    /\ visited = {}
    /\ landingPositions = << >>
    /\ pc = "idle"
    /\ m_rotationSystems = initialize
    /\ newPos = Position

SpecRotationOnly == InitRotationOnly /\ [][NextSearch]_vars

\* C22: when Config.lastRotationOnly is true, every returned landing has a
\* non-empty path whose last move is a rotation
C22_LastRotationOnly ==
    (pc = "done" /\ m_config.lastRotationOnly) =>
        \A i \in DOMAIN ret : pathEndsInRotation(ret[i].path)

\* C23: with maxDepth = 0 the path stored with every returned landing is a
\* shortest one: no sequence of fewer moves of the configured alphabet leads
\* from the input piece through fitting states to the landing's state
C23_ShortestPath ==
    (pc = "done" /\ maxDepth = 0) =>
        \A i \in DOMAIN ret :
            Len(ret[i].path) >= 1 =>
                ret[i].piece \notin
                    WithinDepth(m_board, m_currentPiece, m_config,
                                Len(ret[i].path) - 1)

-----------------------------------------------------------------------------
(* SpecTSpin: PathSearch::detectTSpin applied to a T piece anywhere on a   *)
(* small board whose filled cells are drawn from the corners around (1,1)  *)
(* and (2,2)                                                               *)

TSpinW == minBoardDim
TSpinH == minBoardDim
CornerCells == { <<0, 0>>, <<2, 0>>, <<0, 2>>, <<2, 2>>, <<1, 1>>, <<3, 3>> }

InitTSpin ==
    /\ \E cells \in SUBSET CornerCells :
           m_board = fillAll(newBoard(TSpinW, TSpinH), cells)
    /\ \E x \in 0 .. TSpinW - 1, y \in 0 .. TSpinH - 1, rot \in Rotations :
           m_currentPiece = [ type |-> "T", x |-> x, y |-> y, rot |-> rot ]
    /\ m_heldPiece = "None"
    /\ m_holdUsed = FALSE
    /\ m_nextPieces = << >>
    /\ m_linesCleared = 0
    /\ m_gameOver = FALSE
    /\ nLocks = 0
    /\ lastOp = noOp
    /\ ret = 0
    /\ SearchIdle

DetectTSpin(lastMoveWasRotation) ==
    /\ ret' = detectTSpin(m_board, m_currentPiece, lastMoveWasRotation)
    /\ lastOp' = [ op |-> "detectTSpin",
                   lastMoveWasRotation |-> lastMoveWasRotation ]
    /\ UNCHANGED << m_board, gameVars, searchVars >>

NextTSpin == \E lastMoveWasRotation \in BOOLEAN : DetectTSpin(lastMoveWasRotation)

SpecTSpin == InitTSpin /\ [][NextTSpin]_vars

\* the corners of the claim that are occupied: outside the board or filled
OccupiedCorners ==
    LET px == m_currentPiece.x
        py == m_currentPiece.y
        corner == [ c \in {"A", "B", "C", "D"} |->
                      CASE c = "A" -> << px - 1, py + 1 >>
                        [] c = "B" -> << px + 1, py + 1 >>
                        [] c = "C" -> << px - 1, py - 1 >>
                        [] c = "D" -> << px + 1, py - 1 >> ]
    IN  { c \in {"A", "B", "C", "D"} :
            \/ corner[c][1] \notin 0 .. m_board.m_width - 1
            \/ corner[c][2] \notin 0 .. m_board.m_height - 1
            \/ corner[c][1] \in m_board.m_rows[corner[c][2]] }

FrontPair(rot) ==
    CASE rot = 0 -> {"A", "B"}
      [] rot = 1 -> {"B", "D"}
      [] rot = 2 -> {"C", "D"}
      [] rot = 3 -> {"A", "C"}

-----------------------------------------------------------------------------
(* The bitset-backed Board: m_cells is the set of the bits that are set.   *)
(* m_board holds a record of this Board in the specifications below.       *)

maxWidth == 32
maxHeight == 40

\* Board::Board
bitsetNewBoard(width, height) ==
    [ m_width |-> width,
      m_height |-> height,
      m_cells |-> {},
      m_columnHeights |-> [ x \in 0 .. width - 1 |-> 0 ],
      m_roof |-> 0,
      m_filledCellCount |-> 0 ]

\* Board::isFilled: bit y * m_width + x
bitsetIsFilled(b, x, y) ==
    IF x < 0 \/ x >= b.m_width \/ y < 0 \/ y >= b.m_height
    THEN FALSE
    ELSE (y * b.m_width + x) \in b.m_cells

\* the first filled cell of column x at or below row i, plus one
RECURSIVE bitsetScanDown(_, _, _)
bitsetScanDown(b, x, i) ==
    IF i < 0 THEN 0
    ELSE IF bitsetIsFilled(b, x, i) THEN i + 1
    ELSE bitsetScanDown(b, x, i - 1)

\* Board::updateHeights()
bitsetUpdateHeights(b) ==
    LET heights == [ x \in 0 .. b.m_width - 1 |->
                       bitsetScanDown(b, x, b.m_height - 1) ]
    IN  [ b EXCEPT !.m_columnHeights = heights,
                   !.m_roof = Max({0} \cup { heights[x] : x \in 0 .. b.m_width - 1 }) ]

\* Board::fillCell: sets bit y * maxWidth + x
bitsetFillCell(b, x, y) ==
    IF x < 0 \/ x >= b.m_width \/ y < 0 \/ y >= b.m_height THEN b
    ELSE IF bitsetIsFilled(b, x, y) THEN b
    ELSE LET raise == y + 1 > b.m_columnHeights[x]
         IN  [ b EXCEPT !.m_cells = @ \cup { y * maxWidth + x },
                        !.m_columnHeights[x] = IF raise THEN y + 1 ELSE @,
                        !.m_roof = IF raise /\ y + 1 > @ THEN y + 1 ELSE @,
                        !.m_filledCellCount = @ + 1 ]

\* Board::clearCell: resets bit y * m_width + x
bitsetClearCell(b, x, y) ==
    IF x < 0 \/ x >= b.m_width \/ y < 0 \/ y >= b.m_height THEN b
    ELSE IF ~bitsetIsFilled(b, x, y) THEN b
    ELSE LET b1 == [ b EXCEPT !.m_cells = @ \ { y * b.m_width + x },
                              !.m_filledCellCount = @ - 1 ]
         IN  IF y + 1 = b1.m_columnHeights[x]
             THEN LET b2 == [ b1 EXCEPT !.m_columnHeights[x] =
                                            bitsetScanDown(b1, x, y - 1) ]
                  IN  IF y + 1 = b2.m_roof THEN bitsetUpdateHeights(b2) ELSE b2
             ELSE b1

\* Board::isRowFilled
bitsetIsRowFilled(b, row) ==
    IF row < 0 \/ row >= b.m_height THEN FALSE
    ELSE \A x \in 0 .. b.m_width - 1 : bitsetIsFilled(b, x, row)

\* the inner loop of the row shift of clearFilledRows: cells x .. m_width - 1
\* of row i are filled or cleared after the cells above them
RECURSIVE bitsetShiftRow(_, _, _)
bitsetShiftRow(b, i, x) ==
    IF x >= b.m_width THEN b
    ELSE bitsetShiftRow(IF bitsetIsFilled(b, x, i + 1)
                        THEN bitsetFillCell(b, x, i)
                        ELSE bitsetClearCell(b, x, i),
                        i, x + 1)

\* the row shift of clearFilledRows: rows i .. m_height - 2 in turn
RECURSIVE bitsetShiftRows(_, _)
bitsetShiftRows(b, i) ==
    IF i >= b.m_height - 1 THEN b
    ELSE bitsetShiftRows(bitsetShiftRow(b, i, 0), i + 1)

\* the loop of clearFilledRows that clears the top row
RECURSIVE bitsetClearTopRow(_, _)
bitsetClearTopRow(b, x) ==
    IF x >= b.m_width THEN b
    ELSE bitsetClearTopRow(bitsetClearCell(b, x, b.m_height - 1), x + 1)

\* the outer loop of clearFilledRows from row y on
RECURSIVE bitsetClearRowsLoop(_, _, _)
bitsetClearRowsLoop(b, y, rowsCleared) ==
    IF y >= b.m_height THEN [ board |-> b, rowsCleared |-> rowsCleared ]
    ELSE IF bitsetIsRowFilled(b, y)
    THEN LET shifted == bitsetClearTopRow(bitsetShiftRows(b, y), 0)
         IN  bitsetClearRowsLoop(
                 [ shifted EXCEPT !.m_filledCellCount = @ - shifted.m_width ],
                 y, rowsCleared + 1)
    ELSE bitsetClearRowsLoop(b, y + 1, rowsCleared)

\* Board::clearFilledRows
bitsetClearFilledRows(b) ==
    LET r == bitsetClearRowsLoop(b, 0, 0)
    IN  IF r.rowsCleared > 0
        THEN [ board |-> bitsetUpdateHeights(r.board), rowsCleared |-> r.rowsCleared ]
        ELSE r

-----------------------------------------------------------------------------
(* SpecBitsetRow: cells of row 0 of an empty 10x20 bitset-backed Board are *)
(* filled in any order and clearFilledRows is called                       *)

RowBoardW == 10
RowBoardH == 20

InitBitsetRow ==
    /\ m_board = bitsetNewBoard(RowBoardW, RowBoardH)
    /\ lastOp = noOp
    /\ ret = 0
    /\ InitGameFields
    /\ SearchIdle

\* fillCell(x, y); exploration stops once the count has gone below zero
BitsetFillCell(x, y) ==
    /\ m_board.m_filledCellCount >= 0
    /\ m_board' = bitsetFillCell(m_board, x, y)
    /\ lastOp' = [ op |-> "fillCell", x |-> x, y |-> y ]
    /\ ret' = 0
    /\ UNCHANGED << gameVars, searchVars >>

BitsetClearFilledRows ==
    /\ LET r == bitsetClearFilledRows(m_board)
       IN  /\ m_board' = r.board
           /\ ret' = r.rowsCleared
    /\ lastOp' = [ op |-> "clearFilledRows" ]
    /\ UNCHANGED << gameVars, searchVars >>

NextBitsetRow ==
    \/ \E x \in 0 .. RowBoardW - 1 : BitsetFillCell(x, 0)
    \/ BitsetClearFilledRows

SpecBitsetRow == InitBitsetRow /\ [][NextBitsetRow]_vars

\* C25: on the 10x20 board, once every cell of row 0 has been filled with
\* fillCell, isRowFilled(0) is true and clearFilledRows returns 1 and leaves
\* filledCount 0 and roof 0
C25_ClearBottomRow ==
    [][ (/\ lastOp'.op = "clearFilledRows"
         /\ m_board.m_cells = { 0 * maxWidth + x : x \in 0 .. RowBoardW - 1 }) =>
            /\ bitsetIsRowFilled(m_board, 0)
            /\ ret' = 1
            /\ m_board'.m_filledCellCount = 0
            /\ m_board'.m_roof = 0 ]_vars

-----------------------------------------------------------------------------
(* SpecBitset: fillCell and clearCell on empty bitset-backed Boards of     *)
(* several sizes, at the corners and next to them                          *)

BitsetWidths == {minBoardDim, 10, maxWidth}
BitsetHeights == {minBoardDim, maxHeight}

InitBitset ==
    /\ \E width \in BitsetWidths, height \in BitsetHeights :
           m_board = bitsetNewBoard(width, height)
    /\ lastOp = noOp
    /\ ret = 0
    /\ InitGameFields
    /\ SearchIdle

\* the in-range coordinates handed to fillCell and clearCell
BitsetCoordX == {0, 1, m_board.m_width - 1}
BitsetCoordY == {0, 1, m_board.m_height - 1}

BitsetFillCellCapped(x, y) ==
    /\ m_board.m_filledCellCount < MaxFilled
    /\ BitsetFillCell(x, y)

BitsetClearCell(x, y) ==
    /\ m_board' = bitsetClearCell(m_board, x, y)
    /\ lastOp' = [ op |-> "clearCell", x |-> x, y |-> y ]
    /\ ret' = 0
    /\ UNCHANGED << gameVars, searchVars >>

NextBitset ==
    \/ \E x \in BitsetCoordX, y \in BitsetCoordY : BitsetFillCellCapped(x, y)
    \/ \E x \in BitsetCoordX, y \in BitsetCoordY : BitsetClearCell(x, y)

SpecBitset == InitBitset /\ [][NextBitset]_vars

\* C26: on every board size, after fillCell(x, y) with (x, y) in range
\* isFilled(x, y) is true and isFilled of every other cell is as before; a
\* second fillCell(x, y) changes nothing, filledCount included; after
\* clearCell(x, y), isFilled(x, y) is false
C26_FillThenIsFilled ==
    [][ /\ lastOp'.op = "fillCell" =>
               /\ bitsetIsFilled(m_board', lastOp'.x, lastOp'.y)
               /\ \A x \in 0 .. m_board.m_width - 1, y \in 0 .. m_board.m_height - 1 :
                      << x, y >> # << lastOp'.x, lastOp'.y >> =>
                          bitsetIsFilled(m_board', x, y) = bitsetIsFilled(m_board, x, y)
               /\ lastOp = lastOp' => m_board' = m_board
        /\ lastOp'.op = "clearCell" =>
               ~bitsetIsFilled(m_board', lastOp'.x, lastOp'.y) ]_vars

-----------------------------------------------------------------------------
(* SpecFrame: fillCell and clearCell of the row-mask Board with            *)
(* coordinates on the board and one step outside it                        *)

\* the coordinates handed to fillCell / clearCell: the first and last column
\* and row, and one step outside on either side
FrameCoordX == {-1, 0, BoardW - 1, BoardW}
FrameCoordY == {-1, 0, BoardH - 1, BoardH}

FrameFillCell(x, y) ==
    /\ m_board.m_filledCellCount < MaxFilled
    /\ m_board' = fillCell(m_board, x, y)
    /\ lastOp' = [ op |-> "fillCell", x |-> x, y |-> y ]
    /\ ret' = 0
    /\ UNCHANGED << gameVars, searchVars >>

FrameClearCell(x, y) ==
    /\ m_board' = clearCell(m_board, x, y)
    /\ lastOp' = [ op |-> "clearCell", x |-> x, y |-> y ]
    /\ ret' = 0
    /\ UNCHANGED << gameVars, searchVars >>

NextFrame ==
    \/ \E x \in FrameCoordX, y \in FrameCoordY : FrameFillCell(x, y)
    \/ \E x \in FrameCoordX, y \in FrameCoordY : FrameClearCell(x, y)

SpecFrame == InitBoard /\ [][NextFrame]_vars

OutOfRange(b, x, y) == x < 0 \/ x >= b.m_width \/ y < 0 \/ y >= b.m_height

\* C27: for every (x, y) outside the board isFilled(x, y) is false, and
\* fillCell(x, y) and clearCell(x, y) leave the occupancy, every column
\* height, roof and filledCount unchanged
C27_OutOfRangeNoOp ==
    [][ /\ \A x \in FrameCoordX, y \in FrameCoordY :
               OutOfRange(m_board', x, y) => ~isFilled(m_board', x, y)
        /\ (/\ lastOp'.op \in {"fillCell", "clearCell"}
            /\ OutOfRange(m_board, lastOp'.x, lastOp'.y)) =>
               m_board' = m_board ]_vars

\* fillCell was called one column right of a filled cell of the last column
C27_Witness ==
    /\ lastOp = [ op |-> "fillCell", x |-> BoardW, y |-> 0 ]
    /\ isFilled(m_board, BoardW - 1, 0)
    /\ m_board.m_filledCellCount = 2

-----------------------------------------------------------------------------
(* SpecDimensions: the width and height a Piece reports for each state     *)

\* getCurrentPiece().getWidth()
GetWidth ==
    /\ ret' = pieceWidth(getShapeData(m_currentPiece.type, m_currentPiece.rot))
    /\ lastOp' = [ op |-> "getWidth" ]
    /\ UNCHANGED << m_board, gameVars, searchVars >>

\* getCurrentPiece().getHeight()
GetHeight ==
    /\ ret' = pieceHeight(getShapeData(m_currentPiece.type, m_currentPiece.rot))
    /\ lastOp' = [ op |-> "getHeight" ]
    /\ UNCHANGED << m_board, gameVars, searchVars >>

NextDimensions ==
    \/ \E type \in PieceTypes, x \in PiecePos, y \in PiecePos, rot \in Rotations :
           SetState(type, x, y, rot)
    \/ GetWidth
    \/ GetHeight

SpecDimensions == InitPiece /\ [][NextDimensions]_vars

\* C28: for every SRS (type, rotation) the width of the Piece is
\* max x - min x + 1 and its height max y - min y + 1 over the filled cells
\* of the 4x4 shape
C28_TightDimensions ==
    LET cells == MaskCells(getShapeData(m_currentPiece.type, m_currentPiece.rot))
        xs == { c[1] : c \in cells }
        ys == { c[2] : c \in cells }
    IN  /\ lastOp.op = "getWidth" =>
               ret = Max(xs) - (CHOOSE x \in xs : \A o \in xs : x <= o) + 1
        /\ lastOp.op = "getHeight" =>
               ret = Max(ys) - (CHOOSE y \in ys : \A o \in ys : y <= o) + 1

-----------------------------------------------------------------------------
(* SpecFactory: the rotation-system registry after RuleFactory's           *)
(* constructor has run initialize; clients register and look up names      *)

FactoryNames == {"SRS", "srs", "ARS"}
FactorySystems == {"SRS", "ARS"}

\* RuleFactory::registerRotationSystem
registerRotationSystem(systems, name, system) ==
    [ n \in DOMAIN systems \cup { name } |->
        IF n = name THEN system ELSE systems[n] ]

\* RuleFactory::createRotationSystem: nullptr, or a clone of the prototype
createRotationSystem(systems, name) ==
    IF name \notin DOMAIN systems THEN [ null |-> TRUE ]
    ELSE [ null |-> FALSE, clone |-> systems[name] ]

RegisterRotationSystem(name, system) ==
    /\ m_rotationSystems' = registerRotationSystem(m_rotationSystems, name, system)
    /\ lastOp' = [ op |-> "registerRotationSystem", name |-> name ]
    /\ ret' = 0
    /\ UNCHANGED << m_board, gameVars, m_config, maxDepth, queue, visited,
                    landingPositions, pc, newPos >>

CreateRotationSystem(name) ==
    /\ ret' = createRotationSystem(m_rotationSystems, name)
    /\ lastOp' = [ op |-> "createRotationSystem", name |-> name ]
    /\ UNCHANGED << m_board, gameVars, searchVars >>

NextFactory ==
    \/ \E name \in FactoryNames, system \in FactorySystems :
           RegisterRotationSystem(name, system)
    \/ \E name \in FactoryNames : CreateRotationSystem(name)

SpecFactory == InitBoard /\ [][NextFactory]_vars

\* C29: once the registry is initialised, createRotationSystem("SRS")
\* returns a non-null instance, and the lookup of a name that is not
\* registered, a differently-cased one included, returns null
C29_SRSRegistered ==
    lastOp.op = "createRotationSystem" =>
        /\ lastOp.name = "SRS" => ~ret.null
        /\ lastOp.name \notin DOMAIN m_rotationSystems => ret.null

-----------------------------------------------------------------------------
(* SpecClone: GameState::clone on the states of the next-queue scenario    *)

\* the validation of Board::Board: whether the constructor returns
boardConstructible(width, height) ==
    ~(width > maxWidth \/ height > maxHeight
        \/ width < minBoardDim \/ height < minBoardDim)

\* GameState::clone: `GameState copy{0, 0}` constructs a 0x0 Board first; the
\* fields are copied only if that constructor returns
clone(g) ==
    IF ~boardConstructible(0, 0)
    THEN [ threw |-> "invalid_argument" ]
    ELSE [ threw |-> "nothing", copy |-> g ]

Clone ==
    /\ ret' = clone(G)
    /\ lastOp' = [ op |-> "clone" ]
    /\ UNCHANGED << m_board, gameVars, searchVars >>

NextClone ==
    \/ \E type \in PushedTypes : PushBack(type)
    \/ SpawnNextPiece
    \/ Clone

SpecClone == InitQueue /\ [][NextClone]_vars

\* C30: clone completes without raising an error for every game state and
\* returns a state whose board, current piece, held piece, holdUsed,
\* next-queue, linesCleared and gameOver equal those of the original
C30_CloneEqualsOriginal ==
    lastOp.op = "clone" =>
        /\ ret.threw = "nothing"
        /\ ret.copy = G

-----------------------------------------------------------------------------
(* SpecLanding: findLandingPositions for a piece in the state SRS spawns   *)
(* it in, on an empty board of the standard size, under the declared       *)
(* Config                                                                  *)

\* the piece types spawned for the search
LandingTypes == {"O", "T", "I", "J"}

InitLanding ==
    /\ m_board = newBoard(RowBoardW, RowBoardH)
    /\ \E type \in LandingTypes :
           m_currentPiece = getInitialState(type, RowBoardW, RowBoardH)
    /\ m_heldPiece = "None"
    /\ m_holdUsed = FALSE
    /\ m_nextPieces = << >>
    /\ m_linesCleared = 0
    /\ m_gameOver = FALSE
    /\ nLocks = 0
    /\ lastOp = noOp
    /\ ret = 0
    /\ SearchIdle

SpecLanding == InitLanding /\ [][NextSearch]_vars

\* the lowest row a piece has a filled cell on
lowestRow(p) ==
    CHOOSE y \in { c[2] : c \in getAbsoluteFilledCells(p) } :
        \A c \in getAbsoluteFilledCells(p) : y <= c[2]

\* C31: on an empty 10x20 board with the O piece at its SRS spawn state and
\* the default configuration, the landings findLandingPositions returns lie
\* at exactly 9 distinct x positions and each has its lowest filled cell on
\* the floor row y = 0
C31_OLandings ==
    pc = "done" /\ m_currentPiece.type = "O" =>
        /\ Cardinality({ ret[i].piece.x : i \in 1 .. Len(ret) }) = RowBoardW - 2 + 1
        /\ \A i \in 1 .. Len(ret) : lowestRow(ret[i].piece) = 0

-----------------------------------------------------------------------------
(* SpecAfterLock: a piece that fits on an empty board is locked, and then, *)
(* with no spawn and no hold in between, the client goes on calling        *)
(* applyMove and lockCurrentPiece                                          *)

AfterLockTypes == {"I", "O", "T"}

AfterLockMoves ==
    { Move(t) : t \in {"Left", "Right", "Down", "Up", "RotateClockwise"} }

InitAfterLock ==
    /\ m_board = newBoard(MoveW, MoveH)
    /\ \E type \in AfterLockTypes, rot \in Rotations,
          x \in -1 .. MoveW - 2, y \in -1 .. MoveH - 2 :
           /\ m_currentPiece = [ type |-> type, x |-> x, y |-> y, rot |-> rot ]
           /\ PieceFits(m_board, m_currentPiece)
    /\ m_heldPiece = "None"
    /\ m_holdUsed = FALSE
    /\ m_nextPieces = << >>
    /\ m_linesCleared = 0
    /\ m_gameOver = FALSE
    /\ nLocks = 0
    /\ lastOp = noOp
    /\ ret = 0
    /\ SearchIdle

ApplyMoveAfterLock(move) == nLocks >= 1 /\ ApplyMove(move)

NextAfterLock ==
    \/ LockAfterSpawn
    \/ \E move \in AfterLockMoves : ApplyMoveAfterLock(move)

SpecAfterLock == InitAfterLock /\ [][NextAfterLock]_vars

\* C32: once lockCurrentPiece was called and until the next spawn, no
\* applyMove call succeeds in moving a piece, and a further lockCurrentPiece
\* call leaves the board unchanged and returns 0
C32_EmptyAfterLock ==
    [][ nLocks >= 1 =>
          /\ lastOp'.op = "applyMove" =>
                 ret' = FALSE /\ m_currentPiece' = m_currentPiece
          /\ lastOp'.op = "lockCurrentPiece" =>
                 ret' = 0 /\ m_board' = m_board ]_vars

-----------------------------------------------------------------------------
(* SpecDescent: one call of applyMove(HardDrop) of the GameState whose     *)
(* descent loop tests checkCollision() without arguments, followed step by *)
(* step; positions are two's-complement integers of PosBits bits           *)

\* width of the position integers (std::int32_t in the source)
PosBits == 4

minPos == -(2 ^ (PosBits - 1))
maxPos == 2 ^ (PosBits - 1) - 1

\* the values v - 1 may leave in a signed integer: the difference, or, on
\* overflow, whatever the build produces
decrement(v) == IF v > minPos THEN { v - 1 } ELSE minPos .. maxPos

\* the values v + 1 may leave in a signed integer
increment(v) == IF v < maxPos THEN { v + 1 } ELSE minPos .. maxPos

\* GameState::checkCollision(): the current piece, not a candidate, is tested
checkCollisionCurrent(b, current) ==
    \E c \in getAbsoluteFilledCells(current) :
        \/ c[1] < 0 \/ c[1] >= b.m_width
        \/ c[2] < 0 \/ c[2] >= b.m_height
        \/ isFilled(b, c[1], c[2])

DescentTypes == {"I", "O", "T"}

InitDescent ==
    /\ \E cells \in SUBSET ObstacleCells :
           m_board = fillAll(newBoard(MoveW, MoveH), cells)
    /\ \E type \in DescentTypes, rot \in Rotations,
          x \in -1 .. MoveW - 2, y \in -1 .. MoveH - 2 :
           m_currentPiece = [ type |-> type, x |-> x, y |-> y, rot |-> rot ]
    /\ m_gameOver \in BOOLEAN
    /\ m_heldPiece = "None"
    /\ m_holdUsed = FALSE
    /\ m_nextPieces = << >>
    /\ m_linesCleared = 0
    /\ nLocks = 0
    /\ lastOp = noOp
    /\ ret = FALSE
    /\ SearchIdle

\* applyMove(HardDrop) up to the while loop
BeginHardDrop ==
    /\ pc = "idle"
    /\ lastOp' = [ op |-> "applyMove", move |-> Move("HardDrop") ]
    /\ IF m_gameOver
       THEN /\ ret' = FALSE
            /\ pc' = "done"
            /\ UNCHANGED newPos
       ELSE /\ pc' = "descent"
            /\ newPos' = [ xPos |-> m_currentPiece.x, yPos |-> m_currentPiece.y ]
            /\ UNCHANGED ret
    /\ UNCHANGED << m_board, gameVars, m_config, maxDepth, queue, visited,
                    landingPositions, m_rotationSystems >>

\* one iteration of while (!checkCollision()): newPos goes down one row and
\* is copied into the local newState; the current piece is not touched
DescentIteration ==
    /\ pc = "descent"
    /\ ~checkCollisionCurrent(m_board, m_currentPiece)
    /\ \E v \in decrement(newPos.yPos) : newPos' = [ newPos EXCEPT !.yPos = v ]
    /\ UNCHANGED << m_board, gameVars, lastOp, ret, m_config, maxDepth, queue,
                    visited, landingPositions, pc, m_rotationSystems >>

\* the loop is left: one step back up, then the validity test of the
\* temporarily applied state and the revert when it fails
FinishHardDrop ==
    /\ pc = "descent"
    /\ checkCollisionCurrent(m_board, m_currentPiece)
    /\ \E v \in increment(newPos.yPos) :
           LET newState == [ m_currentPiece EXCEPT !.x = newPos.xPos, !.y = v ]
               valid == ~checkCollisionCurrent(m_board, newState)
           IN  /\ newPos' = [ newPos EXCEPT !.yPos = v ]
               /\ m_currentPiece' = IF valid THEN newState ELSE m_currentPiece
               /\ ret' = valid
    /\ pc' = "done"
    /\ UNCHANGED << m_board, m_heldPiece, m_holdUsed, m_nextPieces,
                    m_linesCleared, m_gameOver, nLocks, lastOp, m_config,
                    maxDepth, queue, visited, landingPositions,
                    m_rotationSystems >>

NextDescent ==
    \/ BeginHardDrop
    \/ DescentIteration
    \/ FinishHardDrop

SpecDescent == InitDescent /\ [][NextDescent]_vars

\* the call is run to its end whenever it can take a step
SpecDescentFair == SpecDescent /\ WF_vars(NextDescent)

\* C33: applyMove(HardDrop) with the descent loop of game_state.cpp lines
\* 97-106 terminates in every state: a call that entered the loop returns
C33_HardDropTerminates == (pc = "descent") ~> (pc = "done")

-----------------------------------------------------------------------------
(* SpecBisect: PathSearch::applyHardDrop applied to a piece that fits on a *)
(* small board with obstacles, one of them an overhang                     *)

\* the while (true) loop of the HardDrop case of the search's older
\* applyMove: the row the linear descent stops on
RECURSIVE linearHardDropY(_, _, _)
linearHardDropY(b, p, y) ==
    IF canPlacePiece(b, [ p EXCEPT !.y = y - 1 ])
    THEN linearHardDropY(b, p, y - 1)
    ELSE y

InitBisect ==
    /\ \E cells \in SUBSET ObstacleCells :
           m_board = fillAll(newBoard(MoveW, MoveH), cells)
    /\ \E type \in PieceTypes, rot \in Rotations,
          x \in -1 .. MoveW - 2, y \in -2 .. MoveH - 2 :
           /\ m_currentPiece = [ type |-> type, x |-> x, y |-> y, rot |-> rot ]
           /\ canPlacePiece(m_board, m_currentPiece)
    /\ m_heldPiece = "None"
    /\ m_holdUsed = FALSE
    /\ m_nextPieces = << >>
    /\ m_linesCleared = 0
    /\ m_gameOver = FALSE
    /\ nLocks = 0
    /\ lastOp = noOp
    /\ ret = 0
    /\ SearchIdle

\* applyHardDrop(gameState, piece) with piece the current piece
ApplyHardDrop ==
    /\ lastOp.op = "construct"
    /\ ret' = applyHardDrop(m_board, m_currentPiece)
    /\ lastOp' = [ op |-> "applyHardDrop" ]
    /\ UNCHANGED << m_board, gameVars, searchVars >>

NextBisect == ApplyHardDrop

SpecBisect == InitBisect /\ [][NextBisect]_vars

\* C34: for a piece that fits, the binary-search hard drop ends where the
\* linear descents end (the search's older HardDrop loop and GameState's
\* HardDrop loop, which stop one above the first collision), overhangs
\* included
C34_BisectEqualsLinear ==
    lastOp.op = "applyHardDrop" =>
        /\ ret = [ m_currentPiece EXCEPT
                     !.y = linearHardDropY(m_board, m_currentPiece, @) ]
        /\ ret = [ m_currentPiece EXCEPT
                     !.y = hardDropY(m_board, m_currentPiece, @) ]

\* C35: whatever the input piece, also one that does not fit on the board,
\* every landing findLandingPositions returns holds a piece that fits on the
\* board and that does not fit one row lower
C35_LandingsFit ==
    pc = "done" =>
        \A i \in 1 .. Len(ret) :
            /\ canPlacePiece(m_board, ret[i].piece)
            /\ ~canPlacePiece(m_board, [ ret[i].piece EXCEPT !.y = @ - 1 ])

\* C36: applyMove (every move type), spawnPiece, spawnNextPiece and
\* holdCurrentPiece leave the board as it was (cells, column heights, roof
\* and filled cell count), whether they succeed or fail; only
\* lockCurrentPiece changes it
C36_BoardChangesOnlyByLock ==
    [][ lastOp'.op \in {"applyMove", "spawnPiece", "spawnNextPiece",
                        "holdCurrentPiece"} => m_board' = m_board ]_vars

\* a piece was locked, and afterwards a move succeeded on the board that
\* holds its cells
C36_Witness ==
    /\ lastOp.op = "applyMove"
    /\ ret = TRUE
    /\ nLocks >= 1
    /\ m_board.m_filledCellCount > 0

\* C37: from an empty board, under spawnPiece, spawnNextPiece, applyMove,
\* lockCurrentPiece and holdCurrentPiece, no row of the board is completely
\* filled in any state between two operations
C37_NoFullRow ==
    \A y \in 0 .. m_board.m_height - 1 : m_board.m_rows[y] # fullRowMask(m_board)

\* a lock has just completed a row and cleared it
C37_Witness ==
    /\ lastOp.op = "lockCurrentPiece"
    /\ ret >= 1
    /\ m_linesCleared >= 1

\* C38: a rotation move whose wall kick index is at or past the number of
\* tests of the selected table raises no error and is handled as the same
\* rotation with offset (0,0): the rotated piece at the unchanged position
\* is committed when it fits, and otherwise applyMove returns false and the
\* state is unchanged
C38_KickIndexOutOfRange ==
    [][ (/\ lastOp'.op = "applyMove"
         /\ lastOp'.move.type \in RotationMoves
         /\ lastOp'.move.wallKickIndex >=
                Len(KickTableOf(lastOp'.move.type, m_currentPiece.type,
                                m_currentPiece.rot))) =>
            LET candidate ==
                    [ m_currentPiece EXCEPT
                        !.rot = RotatedBy(lastOp'.move.type, m_currentPiece.rot) ]
            IN  /\ ret' \in BOOLEAN
                /\ IF PieceFits(m_board, candidate)
                   THEN ret' = TRUE /\ m_currentPiece' = candidate
                   ELSE ret' = FALSE /\ m_currentPiece' = m_currentPiece
                /\ UNCHANGED << m_board, m_heldPiece, m_holdUsed, m_nextPieces,
                                m_linesCleared, m_gameOver >> ]_vars

\* a J piece was rotated clockwise with an index past the five tests of its
\* table and the rotation was committed
C38_Witness ==
    /\ lastOp.op = "applyMove"
    /\ lastOp.move.type = "RotateClockwise"
    /\ lastOp.move.wallKickIndex >= Len(jlstzWallKickData[1][1])
    /\ ret = TRUE
    /\ m_currentPiece.type = "J"
    /\ m_currentPiece.rot = 1

-----------------------------------------------------------------------------
(* SpecTerminate: one call of findLandingPositions or of findPath, from a  *)
(* start piece that fits or not, followed to its return                    *)

\* the configurations the two searches are run under
TerminateConfigs ==
    [ allowRotate180 : {FALSE}, allowHardDrop : BOOLEAN, allowSoftDrop : BOOLEAN ]

\* the start pieces: on the board, and partly below or beside it
TerminatePieces ==
    [ type : {"T"}, x : {-1, 1}, y : {-2, 2}, rot : {0, 1} ]

\* the targets of findPath: resting on the floor, above every start piece,
\* and beside the board
TerminateTargets ==
    { [ type |-> "T", x |-> -1, y |-> -1, rot |-> 0 ],
      [ type |-> "T", x |-> 0, y |-> 3, rot |-> 1 ],
      [ type |-> "T", x |-> -3, y |-> 0, rot |-> 0 ] }

InitTerminate ==
    /\ \E cells \in { {}, ObstacleCells } :
           m_board = fillAll(newBoard(MoveW, MoveH), cells)
    /\ m_currentPiece \in TerminatePieces
    /\ m_heldPiece = "None"
    /\ m_holdUsed = FALSE
    /\ m_nextPieces = << >>
    /\ m_linesCleared = 0
    /\ m_gameOver = FALSE
    /\ nLocks = 0
    /\ lastOp = noOp
    /\ ret = << >>
    /\ m_config \in TerminateConfigs
    /\ maxDepth \in {0, MaxSearchDepth}
    /\ queue = << >>
    /\ visited = {}
    /\ landingPositions = << >>
    /\ pc = "idle"
    /\ m_rotationSystems = initialize
    /\ newPos = Position

\* findPath(gameState, startPiece, targetPiece) up to the while loop, with
\* startPiece the current piece
BeginFindPath(targetPiece) ==
    /\ pc = "idle"
    /\ queue' = << SearchNode(m_currentPiece, Move("Down"), << >>, 0) >>
    /\ visited' = { m_currentPiece }
    /\ pc' = "path"
    /\ lastOp' = [ op |-> "findPath", targetPiece |-> targetPiece ]
    /\ UNCHANGED << m_board, gameVars, ret, m_config, maxDepth,
                    landingPositions, m_rotationSystems, newPos >>

\* one iteration of the while loop of findPath: the target is recognised and
\* its path returned, or the moves of the front node are tried
FindPathIteration ==
    /\ pc = "path"
    /\ queue # << >>
    /\ LET currentNode == Head(queue)
           popped == pop(queue)
       IN  IF currentNode.piece = lastOp.targetPiece
           THEN /\ ret' = reconstructPath(currentNode).path
                /\ pc' = "done"
                /\ queue' = popped
                /\ UNCHANGED visited
           ELSE LET r == tryMoves(m_board, currentNode,
                                  generatePossibleMoves(m_config), 1, popped, visited)
                IN  /\ queue' = r.queue
                    /\ visited' = r.visited
                    /\ UNCHANGED << ret, pc >>
    /\ UNCHANGED << m_board, gameVars, lastOp, m_config, maxDepth,
                    landingPositions, m_rotationSystems, newPos >>

\* the queue is empty: findPath returns the empty path
ReturnEmptyPath ==
    /\ pc = "path"
    /\ queue = << >>
    /\ ret' = << >>
    /\ pc' = "done"
    /\ UNCHANGED << m_board, gameVars, lastOp, m_config, maxDepth, queue,
                    visited, landingPositions, m_rotationSystems, newPos >>

NextTerminate ==
    \/ BeginSearch
    \/ SearchIteration
    \/ ReturnLandingPositions
    \/ \E targetPiece \in TerminateTargets : BeginFindPath(targetPiece)
    \/ FindPathIteration
    \/ ReturnEmptyPath

SpecTerminate == InitTerminate /\ [][NextTerminate]_vars

\* a call that can take a step takes it
SpecTerminateFair == SpecTerminate /\ WF_vars(NextTerminate)

\* C39: findLandingPositions and findPath return, whatever the board, the
\* input piece (fitting or not), the configuration and maxDepth; findPath
\* with a target no sequence of moves reaches returns the empty path
C39_SearchTerminates ==
    /\ (pc \in {"loop", "path"}) ~> (pc = "done")
    /\ [](/\ pc = "done"
          /\ lastOp.op = "findPath"
          /\ lastOp.targetPiece \notin Reachable(m_board, m_currentPiece, m_config)
          => ret = << >>)

\* findPath has returned the empty path for a target it cannot reach, after
\* visiting states beyond a start piece that does not fit on the board
C39_Witness ==
    /\ pc = "done"
    /\ lastOp.op = "findPath"
    /\ lastOp.targetPiece \notin Reachable(m_board, m_currentPiece, m_config)
    /\ ret = << >>
    /\ ~canPlacePiece(m_board, m_currentPiece)
    /\ Cardinality(visited) > 1

=============================================================================
